---- MODULE Spec2Model ----
(***************************************************************************)
(* Guardian Keeper, Toyota edition (src/.guardian-shell/                   *)
(* guardian-keeper-toyota.rs): the replica-repair engine as a state        *)
(* machine.  Replicas hold byte blobs; the digests and the validator are   *)
(* computed bit-exactly on those bytes.                                    *)
(***************************************************************************)
EXTENDS Integers, Sequences, FiniteSets, TLC

(***************************************************************************)
(* Program constants.                                                      *)
(***************************************************************************)
MAX_REPAIR_ATTEMPTS == 3
CONSENSUS_THRESHOLD == 3
REPAIR_LIMIT == 10
MIN_SIZE == 1024
MIN_SIZE_V2 == 1024
CRC_POLY_HI == 60856
CRC_POLY_LO == 33568
HALF_MAX == 65535
HALF_TOP == 32768
FLETCHER_MOD == 65535
FLETCHER_CHUNK == 360
CAUTION_BELOW == 10
WARNING_BELOW == 5
FAILED_WARNING == 5

(***************************************************************************)
(* Bounds of the model.                                                    *)
(***************************************************************************)
\* The first NumLocations entries of SURVIVAL_LOCATIONS are modelled, and the
\* first WideLocations of them where the counts the code compares with 5 and
\* 10 matter.
NumLocations == 5
WideLocations == 11

\* The deletions from outside stop when the repair counter has reached this.
MaxWideRepairs == 22
\* The first V2Locations of POTENTIAL_LOCATIONS of guardian-keeper-v2.rs.
V2Locations == 4
\* The first TieLocations of them where two groups that both reach the quorum
\* are compared.
TieLocations == 7

(***************************************************************************)
(* Byte blobs a replica file may hold.  A1 differs from A by the CRC-32    *)
(* generator polynomial laid over five bytes (same CRC, other Fletcher);   *)
(* A2 differs from A by four such patches whose byte sums cancel (same CRC *)
(* and same Fletcher).  Short and NoHdr fail the validator.                *)
(***************************************************************************)
BlobA == [i \in 1..MIN_SIZE |-> IF i = 1 THEN 35 ELSE IF i = 2 THEN 33
                                 ELSE IF i > 150 /\ i <= 350 THEN 255 ELSE 0]

BlobA1 == [BlobA EXCEPT ![101] = 65, ![102] = 6, ![103] = 113, ![104] = 219, ![105] = 1]

BlobA2 == [BlobA EXCEPT ![101] = 65, ![102] = 6, ![103] = 113, ![104] = 219, ![105] = 1,
                        ![201] = 190, ![202] = 249, ![203] = 142, ![204] = 36, ![205] = 254,
                        ![301] = 190, ![302] = 249, ![303] = 142, ![304] = 36, ![305] = 254,
                        ![401] = 65, ![402] = 6, ![403] = 113, ![404] = 219, ![405] = 1]

BlobB == [i \in 1..MIN_SIZE |-> IF i = 1 THEN 127 ELSE IF i = 2 THEN 69
                                 ELSE IF i = 3 THEN 76 ELSE IF i = 4 THEN 70 ELSE 0]

BlobShort == <<35, 33, 47, 98, 105, 110>>

BlobNoHdr == [i \in 1..MIN_SIZE |-> IF i = 1 THEN 1 ELSE 0]

\* b"GUARD_TOYOTA_V1\0"
GUARDIAN_SIGNATURE == <<71, 85, 65, 82, 68, 95, 84, 79, 89, 79, 84, 65, 95, 86, 49, 0>>

\* A with the signature laid over bytes 501 to 516, and a shebang followed by
\* the signature and nothing else.
BlobSigned == [i \in 1..MIN_SIZE |->
                  IF i > 500 /\ i <= 500 + Len(GUARDIAN_SIGNATURE)
                  THEN GUARDIAN_SIGNATURE[i - 500] ELSE BlobA[i]]

BlobShortSigned == <<35, 33>> \o GUARDIAN_SIGNATURE

\* The blobs that hold the signature.
MarkedBlobs == {"Signed", "ShortSigned"}

\* The inputs of test_binary_validation in guardian-keeper-v2.rs:
\* b"\x7fELF12345678901234567890", b"#!/bin/bash\necho test", b"too short".
BlobElfTest == <<127, 69, 76, 70, 49, 50, 51, 52, 53, 54, 55, 56, 57, 48,
                 49, 50, 51, 52, 53, 54, 55, 56, 57, 48>>

BlobBashTest == <<35, 33, 47, 98, 105, 110, 47, 98, 97, 115, 104, 10,
                  101, 99, 104, 111, 32, 116, 101, 115, 116>>

BlobTooShort == <<116, 111, 111, 32, 115, 104, 111, 114, 116>>

TestBlobs == {"ElfTest", "BashTest", "TooShort"}

BlobIds == {"A", "A1", "A2", "B", "Short", "NoHdr"} \cup MarkedBlobs \cup TestBlobs

Bytes(id) ==
    CASE id = "A" -> BlobA
      [] id = "A1" -> BlobA1
      [] id = "A2" -> BlobA2
      [] id = "B" -> BlobB
      [] id = "Short" -> BlobShort
      [] id = "NoHdr" -> BlobNoHdr
      [] id = "Signed" -> BlobSigned
      [] id = "ShortSigned" -> BlobShortSigned
      [] id = "ElfTest" -> BlobElfTest
      [] id = "BashTest" -> BlobBashTest
      [] id = "TooShort" -> BlobTooShort

(***************************************************************************)
(* Checksum engine.                                                        *)
(***************************************************************************)
RECURSIVE Xor(_, _)
Xor(a, b) ==
    IF a = 0 THEN b
    ELSE IF b = 0 THEN a
    ELSE ((a + b) % 2) + 2 * Xor(a \div 2, b \div 2)

\* A u32 is held as <<high 16 bits, low 16 bits>>.
CrcShift(crc) ==
    LET hi == crc[1] \div 2
        lo == (crc[2] \div 2) + ((crc[1] % 2) * HALF_TOP)
    IN  IF crc[2] % 2 # 0
        THEN <<Xor(hi, CRC_POLY_HI), Xor(lo, CRC_POLY_LO)>>
        ELSE <<hi, lo>>

RECURSIVE CrcBits(_, _)
CrcBits(crc, n) == IF n = 0 THEN crc ELSE CrcBits(CrcShift(crc), n - 1)

CrcByte(crc, byte) == CrcBits(<<crc[1], Xor(crc[2], byte)>>, 8)

\* The byte loop over data[lo..hi], evaluated by halving the range; the test
\* on left makes the left half complete before the right half starts.
RECURSIVE CrcRange(_, _, _, _)
CrcRange(data, crc, lo, hi) ==
    IF lo > hi THEN crc
    ELSE IF lo = hi THEN CrcByte(crc, data[lo])
    ELSE LET mid == (lo + hi) \div 2
             left == CrcRange(data, crc, lo, mid)
         IN  IF left = <<>> THEN left ELSE CrcRange(data, left, mid + 1, hi)

crc32(data) ==
    LET crc == CrcRange(data, <<HALF_MAX, HALF_MAX>>, 1, Len(data))
    IN  <<HALF_MAX - crc[1], HALF_MAX - crc[2]>>

FletcherStep(sums, byte) ==
    LET sum1 == (sums[1] + byte) % FLETCHER_MOD
        sum2 == (sums[2] + sum1) % FLETCHER_MOD
    IN  <<sum1, sum2>>

\* One chunk data[lo..hi] of at most FLETCHER_CHUNK bytes, sums = <<sum1, sum2>>;
\* the byte loop is evaluated by halving the range, left half first.
RECURSIVE FletcherChunk(_, _, _, _)
FletcherChunk(data, sums, lo, hi) ==
    IF lo > hi THEN sums
    ELSE IF lo = hi THEN FletcherStep(sums, data[lo])
    ELSE LET mid == (lo + hi) \div 2
             left == FletcherChunk(data, sums, lo, mid)
         IN  IF left = <<>> THEN left ELSE FletcherChunk(data, left, mid + 1, hi)

RECURSIVE FletcherChunks(_, _, _)
FletcherChunks(data, sums, lo) ==
    IF lo > Len(data) THEN sums
    ELSE LET hi == IF lo + FLETCHER_CHUNK - 1 < Len(data)
                   THEN lo + FLETCHER_CHUNK - 1 ELSE Len(data)
             next == FletcherChunk(data, sums, lo, hi)
         IN  IF next = <<>> THEN next ELSE FletcherChunks(data, next, hi + 1)

fletcher32(data) ==
    LET sums == FletcherChunks(data, <<0, 0>>, 1)
    IN  <<sums[2], sums[1]>>

(***************************************************************************)
(* Validator.                                                              *)
(***************************************************************************)
ELF_MAGIC == <<127, 69, 76, 70>>
SHEBANG == <<35, 33>>

\* data.windows(GUARDIAN_SIGNATURE.len()).any(|w| w == GUARDIAN_SIGNATURE)
signature_in_windows(data) ==
    \E i \in 1..(Len(data) - Len(GUARDIAN_SIGNATURE) + 1) :
        SubSeq(data, i, i + Len(GUARDIAN_SIGNATURE) - 1) = GUARDIAN_SIGNATURE

\* Mutant: no size floor.
validate_binary_redundant_NoFloor(data) ==
    LET has_elf == Len(data) >= 4 /\ SubSeq(data, 1, 4) = ELF_MAGIC
        has_shebang == Len(data) >= 2 /\ SubSeq(data, 1, 2) = SHEBANG
    IN  (has_elf \/ has_shebang)
        /\ (crc32(data) # <<0, 0>> /\ fletcher32(data) # <<0, 0>>)

\* has_signature is computed and takes no part in the result.
validate_binary_redundant(data) ==
    IF Len(data) < MIN_SIZE THEN FALSE
    ELSE LET has_elf == Len(data) >= 4 /\ SubSeq(data, 1, 4) = ELF_MAGIC
             has_shebang == Len(data) >= 2 /\ SubSeq(data, 1, 2) = SHEBANG
             has_signature == signature_in_windows(data)
             crc == crc32(data)
             fletcher == fletcher32(data)
         IN  (has_elf \/ has_shebang) /\ (crc # <<0, 0>> /\ fletcher # <<0, 0>>)

\* Whether the bytes begin with the ELF magic or with "#!".
has_header(data) ==
    \/ Len(data) >= 4 /\ SubSeq(data, 1, 4) = ELF_MAGIC
    \/ Len(data) >= 2 /\ SubSeq(data, 1, 2) = SHEBANG

\* validate_binary of guardian-keeper-v2.rs.
validate_binary(data) ==
    IF Len(data) < MIN_SIZE_V2 THEN FALSE
    ELSE IF Len(data) >= 4 /\ SubSeq(data, 1, 4) = ELF_MAGIC THEN TRUE
    ELSE IF Len(data) >= 2 /\ SubSeq(data, 1, 2) = SHEBANG THEN TRUE
    ELSE FALSE

\* b"GUARD_FIXED_V1\0", the GUARDIAN_SIGNATURE of guardian-keeper-spacex.rs.
GUARDIAN_SIGNATURE_SPACEX == <<71, 85, 65, 82, 68, 95, 70, 73, 88, 69, 68, 95, 86, 49, 0>>

\* validate_binary of guardian-keeper-spacex.rs: an ELF file needs the
\* signature, a script does not.
validate_binary_spacex(data) ==
    IF Len(data) < MIN_SIZE_V2 THEN FALSE
    ELSE IF /\ Len(data) >= 4 /\ SubSeq(data, 1, 4) = ELF_MAGIC
            /\ \E i \in 1..(Len(data) - Len(GUARDIAN_SIGNATURE_SPACEX) + 1) :
                   SubSeq(data, i, i + Len(GUARDIAN_SIGNATURE_SPACEX) - 1)
                       = GUARDIAN_SIGNATURE_SPACEX
         THEN TRUE
    ELSE IF Len(data) >= 2 /\ SubSeq(data, 1, 2) = SHEBANG THEN TRUE
    ELSE FALSE

\* The digests and the verdict of every blob, computed once.
CrcTable == [id \in BlobIds |-> crc32(Bytes(id))]
FletcherTable == [id \in BlobIds |-> fletcher32(Bytes(id))]
ValidTable == [id \in BlobIds |-> validate_binary_redundant(Bytes(id))]
SignatureTable == [id \in BlobIds |-> signature_in_windows(Bytes(id))]
LenTable == [id \in BlobIds |-> Len(Bytes(id))]
ValidV2Table == [id \in BlobIds |-> validate_binary(Bytes(id))]
HeaderTable == [id \in BlobIds |-> has_header(Bytes(id))]
ValidSpacexTable == [id \in BlobIds |-> validate_binary_spacex(Bytes(id))]

(***************************************************************************)
(* File contents.  A file is absent, or holds a blob, or (a temp file in   *)
(* the middle of write_all) nothing yet or the first half of a blob.       *)
(***************************************************************************)
ABSENT == "absent"
EMPTY == "empty"
Torn(id) == id \o "~"
TornIds == {Torn(id) : id \in BlobIds}
Contents == BlobIds \cup TornIds \cup {EMPTY}

BytesOf(c) ==
    IF c \in BlobIds THEN Bytes(c)
    ELSE IF c = EMPTY THEN <<>>
    ELSE LET id == CHOOSE b \in BlobIds : Torn(b) = c
         IN  SubSeq(Bytes(id), 1, Len(Bytes(id)) \div 2)

CrcOf(c) == IF c \in BlobIds THEN CrcTable[c] ELSE crc32(BytesOf(c))
FletcherOf(c) == IF c \in BlobIds THEN FletcherTable[c] ELSE fletcher32(BytesOf(c))
ValidOf(c) == IF c \in BlobIds THEN ValidTable[c] ELSE validate_binary_redundant(BytesOf(c))
SignatureIn(c) == IF c \in BlobIds THEN SignatureTable[c] ELSE signature_in_windows(BytesOf(c))
LenOf(c) == IF c \in BlobIds THEN LenTable[c] ELSE Len(BytesOf(c))
ValidV2Of(c) == IF c \in BlobIds THEN ValidV2Table[c] ELSE validate_binary(BytesOf(c))
HeaderOf(c) == IF c \in BlobIds THEN HeaderTable[c] ELSE has_header(BytesOf(c))
ValidSpacexOf(c) ==
    IF c \in BlobIds THEN ValidSpacexTable[c] ELSE validate_binary_spacex(BytesOf(c))

(***************************************************************************)
(* Consensus selector: find_source_binary.                                 *)
(***************************************************************************)
NoCandidates == [c \in {} |-> 0]

\* Mutant: the scan stops before the last location.
RECURSIVE ScanFrom_SkipLast(_, _, _)
ScanFrom_SkipLast(files, l, candidates) ==
    IF l >= Len(files) THEN candidates
    ELSE LET data == files[l]
         IN  IF data # ABSENT /\ ValidOf(data)
             THEN LET crc == CrcOf(data)
                      fletcher == FletcherOf(data)
                      old == IF crc \in DOMAIN candidates
                             THEN candidates[crc]
                             ELSE [data |-> data, fletchers |-> <<>>, count |-> 0]
                      entry == [data |-> old.data,
                                fletchers |-> Append(old.fletchers, fletcher),
                                count |-> old.count + 1]
                  IN  ScanFrom_SkipLast(files, l + 1,
                               [c \in DOMAIN candidates \cup {crc} |->
                                    IF c = crc THEN entry ELSE candidates[c]])
             ELSE ScanFrom_SkipLast(files, l + 1, candidates)

\* Mutant: the digest that keys the groups is mixed with the place the bytes
\* were read from.
RECURSIVE ScanFrom_KeyedDigest(_, _, _)
ScanFrom_KeyedDigest(files, l, candidates) ==
    IF l > Len(files) THEN candidates
    ELSE LET data == files[l]
         IN  IF data # ABSENT /\ ValidOf(data)
             THEN LET crc == <<CrcOf(data)[1], Xor(CrcOf(data)[2], l)>>
                      fletcher == FletcherOf(data)
                      old == IF crc \in DOMAIN candidates
                             THEN candidates[crc]
                             ELSE [data |-> data, fletchers |-> <<>>, count |-> 0]
                      entry == [data |-> old.data,
                                fletchers |-> Append(old.fletchers, fletcher),
                                count |-> old.count + 1]
                  IN  ScanFrom_KeyedDigest(files, l + 1,
                               [c \in DOMAIN candidates \cup {crc} |->
                                    IF c = crc THEN entry ELSE candidates[c]])
             ELSE ScanFrom_KeyedDigest(files, l + 1, candidates)

\* Mutant: every file that can be read is counted, valid or not.
RECURSIVE ScanFrom_NoValidate(_, _, _)
ScanFrom_NoValidate(files, l, candidates) ==
    IF l > Len(files) THEN candidates
    ELSE LET data == files[l]
         IN  IF data # ABSENT
             THEN LET crc == CrcOf(data)
                      fletcher == FletcherOf(data)
                      old == IF crc \in DOMAIN candidates
                             THEN candidates[crc]
                             ELSE [data |-> data, fletchers |-> <<>>, count |-> 0]
                      entry == [data |-> old.data,
                                fletchers |-> Append(old.fletchers, fletcher),
                                count |-> old.count + 1]
                  IN  ScanFrom_NoValidate(files, l + 1,
                               [c \in DOMAIN candidates \cup {crc} |->
                                    IF c = crc THEN entry ELSE candidates[c]])
             ELSE ScanFrom_NoValidate(files, l + 1, candidates)

\* The scan loop from location l on: candidates is keyed by CRC and keeps the
\* first data read, every Fletcher digest and the count.
RECURSIVE ScanFrom(_, _, _)
ScanFrom(files, l, candidates) ==
    IF l > Len(files) THEN candidates
    ELSE LET data == files[l]
         IN  IF data # ABSENT /\ ValidOf(data)
             THEN LET crc == CrcOf(data)
                      fletcher == FletcherOf(data)
                      old == IF crc \in DOMAIN candidates
                             THEN candidates[crc]
                             ELSE [data |-> data, fletchers |-> <<>>, count |-> 0]
                      entry == [data |-> old.data,
                                fletchers |-> Append(old.fletchers, fletcher),
                                count |-> old.count + 1]
                  IN  ScanFrom(files, l + 1,
                               [c \in DOMAIN candidates \cup {crc} |->
                                    IF c = crc THEN entry ELSE candidates[c]])
             ELSE ScanFrom(files, l + 1, candidates)

ScanAll(files) == ScanFrom(files, 1, NoCandidates)

\* Mutant: only the first two digests are compared.
fletcher_consistent_FirstPair(fletchers) ==
    Len(fletchers) < 2 \/ fletchers[1] = fletchers[2]

fletcher_consistent(fletchers) ==
    \A k \in 1..(Len(fletchers) - 1) : fletchers[k] = fletchers[k + 1]

NoBest == [data |-> ABSENT, crc |-> <<0, 0>>, count |-> 0]

\* Mutant: the quorum is required to be exceeded, not reached.
RECURSIVE PickFrom_AboveThreshold(_, _, _, _)
PickFrom_AboveThreshold(candidates, order, k, best) ==
    IF k > Len(order) THEN best
    ELSE LET crc == order[k]
             e == candidates[crc]
         IN  IF /\ fletcher_consistent(e.fletchers)
                /\ e.count > CONSENSUS_THRESHOLD
                /\ e.count > best.count
             THEN PickFrom_AboveThreshold(candidates, order, k + 1,
                           [data |-> e.data, crc |-> crc, count |-> e.count])
             ELSE PickFrom_AboveThreshold(candidates, order, k + 1, best)

\* Mutant: the largest consistent group wins whatever its size.
RECURSIVE PickFrom_NoThreshold(_, _, _, _)
PickFrom_NoThreshold(candidates, order, k, best) ==
    IF k > Len(order) THEN best
    ELSE LET crc == order[k]
             e == candidates[crc]
         IN  IF /\ fletcher_consistent(e.fletchers)
                /\ e.count > best.count
             THEN PickFrom_NoThreshold(candidates, order, k + 1,
                           [data |-> e.data, crc |-> crc, count |-> e.count])
             ELSE PickFrom_NoThreshold(candidates, order, k + 1, best)

\* Mutant: the first group that reaches the quorum wins.
RECURSIVE PickFrom_FirstQuorum(_, _, _, _)
PickFrom_FirstQuorum(candidates, order, k, best) ==
    IF k > Len(order) THEN best
    ELSE LET crc == order[k]
             e == candidates[crc]
         IN  IF /\ fletcher_consistent(e.fletchers)
                /\ e.count >= CONSENSUS_THRESHOLD
                /\ best.count = 0
             THEN PickFrom_FirstQuorum(candidates, order, k + 1,
                           [data |-> e.data, crc |-> crc, count |-> e.count])
             ELSE PickFrom_FirstQuorum(candidates, order, k + 1, best)

\* The selection loop over the map in iteration order `order`, from its k-th key.
RECURSIVE PickFrom(_, _, _, _)
PickFrom(candidates, order, k, best) ==
    IF k > Len(order) THEN best
    ELSE LET crc == order[k]
             e == candidates[crc]
         IN  IF /\ fletcher_consistent(e.fletchers)
                /\ e.count >= CONSENSUS_THRESHOLD
                /\ e.count > best.count
             THEN PickFrom(candidates, order, k + 1,
                           [data |-> e.data, crc |-> crc, count |-> e.count])
             ELSE PickFrom(candidates, order, k + 1, best)

\* The orders a HashMap may iterate its keys in.
Orders(keys) ==
    {o \in [1..Cardinality(keys) -> keys] : \A c \in keys : \E k \in DOMAIN o : o[k] = c}

ERR_NO_VALID == "No valid binaries found"
ERR_NO_CONSENSUS == "No consensus found"
ERR_MEMORY == "Memory corruption detected"
ERR_LOW_DISK == "Low disk"
ERR_REPAIR_LIMIT == "Repair limit exceeded"

\* find_source_binary over the files, the map iterating in `order`:
\* [err |-> "" and the best candidate] or [err |-> message].
find_source_binary(files, order) ==
    LET candidates == ScanAll(files)
    IN  IF DOMAIN candidates = {}
        THEN [err |-> ERR_NO_VALID, best |-> NoBest]
        ELSE LET best == PickFrom(candidates, order, 1, NoBest)
             IN  IF best = NoBest
                 THEN [err |-> ERR_NO_CONSENSUS, best |-> NoBest]
                 ELSE [err |-> "", best |-> best]

(***************************************************************************)
(* find_source_binary of guardian-keeper-spacex.rs: the CRC-32 alone keys   *)
(* the groups, and the group with most copies wins whatever its size.      *)
(***************************************************************************)
ERR_NO_VALID_SPACEX == "No valid guardian binaries found"

RECURSIVE ScanFrom_spacex(_, _, _)
ScanFrom_spacex(files, l, candidates) ==
    IF l > Len(files) THEN candidates
    ELSE LET data == files[l]
         IN  IF data # ABSENT /\ ValidSpacexOf(data)
             THEN LET checksum == CrcOf(data)
                      old == IF checksum \in DOMAIN candidates
                             THEN candidates[checksum]
                             ELSE [data |-> data, count |-> 0]
                      entry == [data |-> old.data, count |-> old.count + 1]
                  IN  ScanFrom_spacex(files, l + 1,
                               [c \in DOMAIN candidates \cup {checksum} |->
                                    IF c = checksum THEN entry ELSE candidates[c]])
             ELSE ScanFrom_spacex(files, l + 1, candidates)

\* max_by_key over the map iterating in `order`: the last of the entries with
\* the largest count.
max_by_count(candidates, order) ==
    LET top == {k \in DOMAIN order :
                   \A j \in DOMAIN order :
                       candidates[order[j]].count <= candidates[order[k]].count}
        k == CHOOSE i \in top : \A j \in top : j <= i
    IN  [data |-> candidates[order[k]].data, crc |-> order[k],
         count |-> candidates[order[k]].count]

find_source_binary_spacex(files, order) ==
    LET candidates == ScanFrom_spacex(files, 1, NoCandidates)
    IN  IF DOMAIN candidates = {}
        THEN [err |-> ERR_NO_VALID_SPACEX, best |-> NoBest]
        ELSE [err |-> "", best |-> max_by_count(candidates, order)]

(***************************************************************************)
(* State.                                                                  *)
(***************************************************************************)
VARIABLES
    mode,             \* "service" (run_service), "oneshot" (main's single check)
                      \* or "spacex" (run_service of guardian-keeper-spacex.rs)
    pc,               \* where the process is
    exit_code,        \* -1 while the process runs
    status,           \* whether this turn of the loop wrote the status record
    fs,               \* the file at each replica location: ABSENT or its content
    tmpf,             \* the temp file next to each location
    dirs,             \* the locations whose parent directory exists
    fault,            \* the step of a repair the file system refuses, per location
    CANARY, RUNNING, REPAIR_COUNTER, KEEPER_STATE,   \* the process's statics
    repair_attempts,  \* the ledger of run_service / main: 0 is "no entry"
    source,           \* check_and_repair: (source_data, source_crc, consensus_count)
    loc,              \* check_and_repair: the location the repair loop is at
    repaired, failed, \* check_and_repair: its two counters
    result,           \* check_and_repair: "" while running, "ok" or the error
    wres,             \* write_binary_atomic_safe: "" while running, "ok" or the error
    h_start,          \* history: files and repair count when the cycle started
    h_prev,           \* history: "none", or what happened since the last cycle ended
    h_streak,         \* history: write calls per location since its last success
    h_tampers,        \* history: outside changes since the last cycle ended
    h_disk            \* history: what df reported to the check under way

vars == <<mode, pc, exit_code, status, fs, tmpf, dirs, fault, CANARY, RUNNING,
          REPAIR_COUNTER, KEEPER_STATE, repair_attempts, source, loc, repaired,
          failed, result, wres, h_start, h_prev, h_streak, h_tampers, h_disk>>

\* The entries of SURVIVAL_LOCATIONS the run is about: one replica file each.
Locs == DOMAIN fs

MEMORY_CANARY == "FEEDFACE_DEADBEEF"
CORRUPTED_CANARY == "FEEDFACE_DEADBEEE"

KeeperStates == {"Normal", "Caution", "Warning", "Critical"}

FaultKinds == {"unsafe", "mkdir", "open", "write", "sync", "read", "verify",
               "chmod", "rename"}

WritePcs == {"w_open", "w_write", "w_write_rest", "w_sync", "w_verify",
             "w_chmod", "w_rename"}

NoSnapshot == [fs |-> <<>>, tmpf |-> <<>>, dirs |-> {}, repairs |-> -1]
Snapshot == [fs |-> fs, tmpf |-> tmpf, dirs |-> dirs, repairs |-> REPAIR_COUNTER]

(***************************************************************************)
(* Bounds on the environment.                                              *)
(***************************************************************************)
\* Outside changes to replica files between two cycles of the service.
MaxTampers == 2
\* The outside world stops destroying replicas at this many repairs.
MaxRepairs == 12
\* The location whose repairs the file system may refuse (service mode).
FaultyLoc == 2

ServiceBlobs == {"A", "Short"}
CycleBlobs == {"A", "B", "Short"}
\* Blobs crafted to share a CRC-32 with another blob, and the location one of
\* them may be found at in a whole check: the last one scanned.
CollidingBlobs == {"A1", "A2"}
CollidingLocs == {NumLocations}
\* The location a blob with the signature may be found at.
MarkedLocs == {1}
\* The location an input of the v2 tests may be found at.
TestLocs == {1}
TamperValues == {ABSENT}
ServiceFaultKinds == {"mkdir", "open", "write"}
SpacexBlobs == {"A", "B", "Signed"}
TieBlobs == {"A", "A1", "B"}
SpacexFaultKinds == {"mkdir", "open"}
CycleFaultKinds == {"mkdir", "open", "write", "verify", "rename"}
\* The points of the loop a signal is delivered at.
SignalPcs == {"top", "sleep", "w_write_rest", "after"}

\* At most one location, among `locs`, has a fault, of a kind in `kinds`.
FaultMaps(kinds, locs) ==
    {[l \in Locs |-> "none"]}
    \cup {[l \in Locs |-> IF l = m THEN k ELSE "none"] : m \in locs, k \in kinds}

\* HOME lies under /etc, /usr or /bin: every location's path is refused.
UnsafeHome == [l \in Locs |-> "unsafe"]

\* No file can be created under HOME: every open of a temp file fails.
ReadOnlyHome == [l \in Locs |-> "open"]

Present(files) == {l \in Locs : files[l] # ABSENT}

(***************************************************************************)
(* Initial states.                                                         *)
(***************************************************************************)
InitProcess ==
    /\ exit_code = -1
    /\ status = ""
    /\ tmpf = [l \in Locs |-> ABSENT]
    /\ CANARY = MEMORY_CANARY
    /\ RUNNING = TRUE
    /\ REPAIR_COUNTER = 0
    /\ KEEPER_STATE = "Normal"
    /\ repair_attempts = [l \in Locs |-> 0]
    /\ source = NoBest
    /\ loc = 0
    /\ repaired = 0
    /\ failed = 0
    /\ result = ""
    /\ wres = ""
    /\ h_prev = "none"
    /\ h_streak = [l \in Locs |-> 0]
    /\ h_tampers = 0
    /\ h_disk = ""

\* run_service has set the state to Normal and is at the top of its loop.
Init ==
    /\ mode = "service"
    /\ pc = "top"
    /\ fs \in [1..NumLocations -> ServiceBlobs \cup {ABSENT}]
    /\ fault \in FaultMaps(ServiceFaultKinds, {FaultyLoc})
    /\ \E all \in BOOLEAN : dirs = IF all THEN Locs ELSE Present(fs)
    /\ InitProcess
    /\ h_start = NoSnapshot

\* main, without "service", is about to call check_and_repair.
InitCycle ==
    /\ mode = "oneshot"
    /\ pc = "preflight"
    /\ fs \in [1..NumLocations -> CycleBlobs \cup CollidingBlobs \cup {ABSENT}]
    /\ \A l \in Locs : fs[l] \in CollidingBlobs => l \in CollidingLocs
    /\ fault \in FaultMaps(CycleFaultKinds, {FaultyLoc}) \cup {UnsafeHome}
    /\ dirs = Present(fs)
    /\ InitProcess
    /\ h_start = Snapshot

\* main, without "service", is about to call check_and_repair; every replica
\* is the same valid file or is missing.
InitWide ==
    /\ mode = "oneshot"
    /\ pc = "preflight"
    /\ fs \in [1..WideLocations -> {"A", ABSENT}]
    /\ fault \in {[l \in Locs |-> "none"], ReadOnlyHome}
    /\ dirs = Present(fs)
    /\ InitProcess
    /\ h_start = Snapshot

\* run_service is at the top of its loop; the replicas missing are the first
\* ones scanned, the others hold the same valid file.
InitWideService ==
    /\ mode = "service"
    /\ pc = "top"
    /\ \E missing \in 0..(WideLocations - CONSENSUS_THRESHOLD) :
         fs = [l \in 1..WideLocations |-> IF l <= missing THEN ABSENT ELSE "A"]
    /\ fault \in {[l \in Locs |-> "none"], ReadOnlyHome}
    /\ dirs = Present(fs)
    /\ InitProcess
    /\ h_start = NoSnapshot

\* check_and_repair is about to call find_source_binary.
InitSelect ==
    /\ mode = "oneshot"
    /\ pc = "scan"
    /\ fs \in [1..NumLocations -> BlobIds \cup {ABSENT}]
    /\ \A l \in Locs : fs[l] \in MarkedBlobs => l \in MarkedLocs
    /\ \A l \in Locs : fs[l] \in TestBlobs => l \in TestLocs
    /\ fault = [l \in Locs |-> "none"]
    /\ dirs = Locs
    /\ InitProcess
    /\ h_start = Snapshot

\* check_and_repair is about to call find_source_binary; there are enough
\* replicas for two groups to reach the quorum.
InitTie ==
    /\ mode = "oneshot"
    /\ pc = "scan"
    /\ fs \in [1..TieLocations -> TieBlobs \cup {ABSENT}]
    /\ fault = [l \in Locs |-> "none"]
    /\ dirs = Locs
    /\ InitProcess
    /\ h_start = Snapshot

\* run_service of guardian-keeper-spacex.rs is at the top of its loop.
InitSpacex ==
    /\ mode = "spacex"
    /\ pc = "top"
    /\ fs \in [1..NumLocations -> SpacexBlobs \cup {ABSENT}]
    /\ \A l \in Locs : fs[l] \in MarkedBlobs => l \in MarkedLocs
    /\ fault \in FaultMaps(SpacexFaultKinds, {FaultyLoc})
    /\ dirs = Present(fs)
    /\ InitProcess
    /\ h_start = NoSnapshot

(***************************************************************************)
(* Pre-flight checks and the service loop.                                 *)
(***************************************************************************)
\* Mutant: the canary is not looked at.
preflight_check_NoCanary(canary, disk, repairs) ==
    IF disk = "low" THEN ERR_LOW_DISK
    ELSE IF repairs > REPAIR_LIMIT THEN ERR_REPAIR_LIMIT
    ELSE ""

\* preflight_check: "" is Ok(()); `disk` is what df reports ("low": less than
\* MIN_FREE_DISK_MB; "ok": enough, or no answer).
preflight_check(canary, disk, repairs) ==
    IF canary # MEMORY_CANARY THEN ERR_MEMORY
    ELSE IF disk = "low" THEN ERR_LOW_DISK
    ELSE IF repairs > REPAIR_LIMIT THEN ERR_REPAIR_LIMIT
    ELSE ""

\* Mutant: the state is never improved.
StateOfConsensus_KeepWorse(consensus_count) ==
    IF consensus_count < WARNING_BELOW \/ KEEPER_STATE = "Warning" THEN "Warning"
    ELSE IF consensus_count < CAUTION_BELOW \/ KEEPER_STATE = "Caution" THEN "Caution"
    ELSE "Normal"

\* The state check_and_repair sets from the consensus count.
StateOfConsensus(consensus_count) ==
    IF consensus_count < WARNING_BELOW THEN "Warning"
    ELSE IF consensus_count < CAUTION_BELOW THEN "Caution"
    ELSE "Normal"

\* Mutant: the loop does not look at RUNNING.
LoopTop_IgnoreFlag ==
    /\ mode = "service"
    /\ pc = "top"
    /\ pc' = "sleep"
    /\ h_tampers' = 0
    /\ UNCHANGED <<h_disk, mode, exit_code, status, fs, tmpf, dirs, fault, CANARY,
                   RUNNING, REPAIR_COUNTER, KEEPER_STATE, repair_attempts, source,
                   loc, repaired, failed, result, wres, h_start, h_prev, h_streak>>

\* run_service: the while test.
LoopTop ==
    /\ mode = "service"
    /\ pc = "top"
    /\ pc' = IF RUNNING THEN "sleep" ELSE "final"
    /\ h_tampers' = 0
    /\ UNCHANGED <<h_disk, mode, exit_code, status, fs, tmpf, dirs, fault, CANARY,
                   RUNNING, REPAIR_COUNTER, KEEPER_STATE, repair_attempts, source,
                   loc, repaired, failed, result, wres, h_start, h_prev, h_streak>>

\* run_service: the sleep until next_check, after which check_and_repair is
\* called.
SleepUntilNextCheck ==
    /\ mode = "service"
    /\ pc = "sleep"
    /\ pc' = "preflight"
    /\ h_start' = Snapshot
    /\ UNCHANGED <<h_disk, mode, exit_code, status, fs, tmpf, dirs, fault, CANARY,
                   RUNNING, REPAIR_COUNTER, KEEPER_STATE, repair_attempts, source,
                   loc, repaired, failed, result, wres, h_prev, h_streak,
                   h_tampers>>

\* check_and_repair: the pre-flight part.
Preflight ==
    /\ pc = "preflight"
    /\ \E disk \in {"ok", "low"} :
         LET e == preflight_check(CANARY, disk, REPAIR_COUNTER)
         IN  /\ IF e # ""
                THEN IF e = ERR_MEMORY \/ e = ERR_REPAIR_LIMIT
                     THEN /\ KEEPER_STATE' = "Critical"
                          /\ result' = e
                          /\ pc' = "after"
                     ELSE /\ KEEPER_STATE' = "Warning"
                          /\ result' = ""
                          /\ pc' = "scan"
                ELSE /\ UNCHANGED KEEPER_STATE
                     /\ result' = ""
                     /\ pc' = "scan"
             /\ h_disk' = IF e = ERR_MEMORY THEN "" ELSE disk
    /\ UNCHANGED <<mode, exit_code, status, fs, tmpf, dirs, fault, CANARY, RUNNING,
                   REPAIR_COUNTER, repair_attempts, source, loc, repaired, failed,
                   wres, h_start, h_prev, h_streak, h_tampers>>

\* Mutant: a check that finds no source sets Warning.
FindSource_WarnOnFailure ==
    /\ pc = "scan"
    /\ \E order \in Orders(DOMAIN ScanAll(fs)) :
         LET r == find_source_binary(fs, order)
         IN  IF r.err # ""
             THEN /\ result' = r.err
                  /\ pc' = "after"
                  /\ KEEPER_STATE' = "Warning"
                  /\ UNCHANGED <<source, loc>>
             ELSE /\ source' = r.best
                  /\ KEEPER_STATE' = StateOfConsensus(r.best.count)
                  /\ loc' = 1
                  /\ pc' = "repair"
                  /\ UNCHANGED result
    /\ repaired' = 0
    /\ failed' = 0
    /\ UNCHANGED <<h_disk, mode, exit_code, status, fs, tmpf, dirs, fault, CANARY,
                   RUNNING, REPAIR_COUNTER, repair_attempts, wres, h_start, h_prev,
                   h_streak, h_tampers>>

\* check_and_repair: find_source_binary and the state set from its count.
FindSource ==
    /\ pc = "scan"
    /\ \E order \in Orders(DOMAIN ScanAll(fs)) :
         LET r == find_source_binary(fs, order)
         IN  IF r.err # ""
             THEN /\ result' = r.err
                  /\ pc' = "after"
                  /\ UNCHANGED <<source, loc, KEEPER_STATE>>
             ELSE /\ source' = r.best
                  /\ KEEPER_STATE' = StateOfConsensus(r.best.count)
                  /\ loc' = 1
                  /\ pc' = "repair"
                  /\ UNCHANGED result
    /\ repaired' = 0
    /\ failed' = 0
    /\ UNCHANGED <<h_disk, mode, exit_code, status, fs, tmpf, dirs, fault, CANARY, RUNNING,
                   REPAIR_COUNTER, repair_attempts, wres, h_start, h_prev,
                   h_streak, h_tampers>>

(***************************************************************************)
(* The repair loop of check_and_repair.                                    *)
(***************************************************************************)
\* Mutant: every replica is rewritten.
needs_repair_Always(content, source_crc) == TRUE

needs_repair(content, source_crc) ==
    IF content # ABSENT
    THEN CrcOf(content) # source_crc \/ ~ValidOf(content)
    ELSE TRUE

\* Mutant: the breaker closes when the cause of the failures has gone.
BreakerOpen_WhileFaulty(attempts) ==
    attempts >= MAX_REPAIR_ATTEMPTS /\ fault[loc] # "none"

\* Mutant: the breaker never opens.
BreakerOpen_Never(attempts) == FALSE

\* Mutant: the breaker opens one failure late.
BreakerOpen_Late(attempts) == attempts > MAX_REPAIR_ATTEMPTS

BreakerOpen(attempts) == attempts >= MAX_REPAIR_ATTEMPTS

\* One turn of the loop up to the call of write_binary_atomic_safe.
RepairIter ==
    /\ pc = "repair"
    /\ loc <= Len(fs)
    /\ IF BreakerOpen(repair_attempts[loc])
       THEN /\ loc' = loc + 1
            /\ UNCHANGED <<pc, dirs, h_streak>>
       ELSE IF loc \notin dirs /\ fault[loc] = "mkdir"
       THEN /\ loc' = loc + 1
            /\ UNCHANGED <<pc, dirs, h_streak>>
       ELSE /\ dirs' = dirs \cup {loc}
            /\ IF needs_repair(fs[loc], source.crc)
               THEN /\ pc' = "w_open"
                    /\ h_streak' = [h_streak EXCEPT ![loc] = @ + 1]
                    /\ UNCHANGED loc
               ELSE /\ loc' = loc + 1
                    /\ UNCHANGED <<pc, h_streak>>
    /\ UNCHANGED <<h_disk, mode, exit_code, status, fs, tmpf, fault, CANARY, RUNNING,
                   REPAIR_COUNTER, KEEPER_STATE, repair_attempts, source, repaired,
                   failed, result, wres, h_start, h_prev, h_tampers>>

\* Mutant: the first failed write ends the repair loop.
RepairResult_StopOnFailure ==
    /\ pc = "w_ret"
    /\ IF wres = "ok"
       THEN /\ repaired' = repaired + 1
            /\ REPAIR_COUNTER' = REPAIR_COUNTER + 1
            /\ repair_attempts' = [repair_attempts EXCEPT ![loc] = 0]
            /\ h_streak' = [h_streak EXCEPT ![loc] = 0]
            /\ loc' = loc + 1
            /\ UNCHANGED failed
       ELSE /\ failed' = failed + 1
            /\ repair_attempts' = [repair_attempts EXCEPT ![loc] = @ + 1]
            /\ loc' = Len(fs) + 1
            /\ UNCHANGED <<repaired, REPAIR_COUNTER, h_streak>>
    /\ wres' = ""
    /\ pc' = "repair"
    /\ UNCHANGED <<h_disk, mode, exit_code, status, fs, tmpf, dirs, fault, CANARY,
                   RUNNING, KEEPER_STATE, source, result, h_start, h_prev,
                   h_tampers>>

\* Mutant: a success leaves the ledger entry as it is.
RepairResult_KeepLedger ==
    /\ pc = "w_ret"
    /\ IF wres = "ok"
       THEN /\ repaired' = repaired + 1
            /\ REPAIR_COUNTER' = REPAIR_COUNTER + 1
            /\ h_streak' = [h_streak EXCEPT ![loc] = 0]
            /\ UNCHANGED <<failed, repair_attempts>>
       ELSE /\ failed' = failed + 1
            /\ repair_attempts' = [repair_attempts EXCEPT ![loc] = @ + 1]
            /\ UNCHANGED <<repaired, REPAIR_COUNTER, h_streak>>
    /\ wres' = ""
    /\ loc' = loc + 1
    /\ pc' = "repair"
    /\ UNCHANGED <<h_disk, mode, exit_code, status, fs, tmpf, dirs, fault, CANARY,
                   RUNNING, KEEPER_STATE, source, result, h_start, h_prev,
                   h_tampers>>

\* The match on the result of write_binary_atomic_safe.
RepairResult ==
    /\ pc = "w_ret"
    /\ IF wres = "ok"
       THEN /\ repaired' = repaired + 1
            /\ REPAIR_COUNTER' = REPAIR_COUNTER + 1
            /\ repair_attempts' = [repair_attempts EXCEPT ![loc] = 0]
            /\ h_streak' = [h_streak EXCEPT ![loc] = 0]
            /\ UNCHANGED failed
       ELSE /\ failed' = failed + 1
            /\ repair_attempts' = [repair_attempts EXCEPT ![loc] = @ + 1]
            /\ UNCHANGED <<repaired, REPAIR_COUNTER, h_streak>>
    /\ wres' = ""
    /\ loc' = loc + 1
    /\ pc' = "repair"
    /\ UNCHANGED <<h_disk, mode, exit_code, status, fs, tmpf, dirs, fault, CANARY, RUNNING,
                   KEEPER_STATE, source, result, h_start, h_prev, h_tampers>>

\* After the loop: the state set from the failures, and Ok(repaired).
FinishCycle ==
    /\ pc = "repair"
    /\ loc > Len(fs)
    /\ KEEPER_STATE' = IF failed > FAILED_WARNING THEN "Warning" ELSE KEEPER_STATE
    /\ result' = "ok"
    /\ pc' = "after"
    /\ UNCHANGED <<h_disk, mode, exit_code, status, fs, tmpf, dirs, fault, CANARY, RUNNING,
                   REPAIR_COUNTER, repair_attempts, source, loc, repaired, failed,
                   wres, h_start, h_prev, h_streak, h_tampers>>

(***************************************************************************)
(* write_binary_atomic_safe(path of loc, source_data), step by step.       *)
(***************************************************************************)
WriteFails(err) ==
    /\ wres' = err
    /\ pc' = "w_ret"

\* The path check and the exclusive creation of the temp file.
WOpen ==
    /\ pc = "w_open"
    /\ IF fault[loc] = "unsafe"
       THEN WriteFails("Unsafe write path") /\ UNCHANGED tmpf
       ELSE IF tmpf[loc] # ABSENT \/ fault[loc] = "open"
       THEN WriteFails("open failed") /\ UNCHANGED tmpf
       ELSE /\ tmpf' = [tmpf EXCEPT ![loc] = EMPTY]
            /\ pc' = "w_write"
            /\ UNCHANGED wres
    /\ UNCHANGED <<h_disk, mode, exit_code, status, fs, dirs, fault, CANARY, RUNNING,
                   REPAIR_COUNTER, KEEPER_STATE, repair_attempts, source, loc,
                   repaired, failed, result, h_start, h_prev, h_streak, h_tampers>>

\* Mutant: the data is written into the target itself.
WWrite_InPlace ==
    /\ pc = "w_write"
    /\ fs' = [fs EXCEPT ![loc] = Torn(source.data)]
    /\ pc' = "w_write_rest"
    /\ UNCHANGED <<h_disk, mode, exit_code, status, tmpf, dirs, fault, CANARY, RUNNING,
                   REPAIR_COUNTER, KEEPER_STATE, repair_attempts, source, loc,
                   repaired, failed, result, wres, h_start, h_prev, h_streak,
                   h_tampers>>

\* write_all, first part: the temp file holds the beginning of the data.
WWrite ==
    /\ pc = "w_write"
    /\ tmpf' = [tmpf EXCEPT ![loc] = Torn(source.data)]
    /\ pc' = "w_write_rest"
    /\ UNCHANGED <<h_disk, mode, exit_code, status, fs, dirs, fault, CANARY, RUNNING,
                   REPAIR_COUNTER, KEEPER_STATE, repair_attempts, source, loc,
                   repaired, failed, result, wres, h_start, h_prev, h_streak,
                   h_tampers>>

\* write_all, the rest.  Under the fault "verify" the file system reports
\* success and keeps the short content.
WWriteRest ==
    /\ pc = "w_write_rest"
    /\ IF fault[loc] = "write"
       THEN WriteFails("write failed") /\ UNCHANGED tmpf
       ELSE /\ tmpf' = [tmpf EXCEPT ![loc] =
                           IF fault[loc] = "verify" THEN @ ELSE source.data]
            /\ pc' = "w_sync"
            /\ UNCHANGED wres
    /\ UNCHANGED <<h_disk, mode, exit_code, status, fs, dirs, fault, CANARY, RUNNING,
                   REPAIR_COUNTER, KEEPER_STATE, repair_attempts, source, loc,
                   repaired, failed, result, h_start, h_prev, h_streak, h_tampers>>

\* sync_all and the drop of the file handle.
WSync ==
    /\ pc = "w_sync"
    /\ IF fault[loc] = "sync"
       THEN WriteFails("sync failed")
       ELSE pc' = "w_verify" /\ UNCHANGED wres
    /\ UNCHANGED <<h_disk, mode, exit_code, status, fs, tmpf, dirs, fault, CANARY, RUNNING,
                   REPAIR_COUNTER, KEEPER_STATE, repair_attempts, source, loc,
                   repaired, failed, result, h_start, h_prev, h_streak, h_tampers>>

\* Mutant: a temp file that fails the verification is left in place.
WVerify_KeepTemp ==
    /\ pc = "w_verify"
    /\ IF fault[loc] = "read"
       THEN WriteFails("read failed")
       ELSE IF tmpf[loc] # source.data \/ ~ValidOf(tmpf[loc])
            THEN WriteFails("Verification failed")
            ELSE pc' = "w_chmod" /\ UNCHANGED wres
    /\ UNCHANGED <<h_disk, mode, exit_code, status, fs, tmpf, dirs, fault, CANARY,
                   RUNNING, REPAIR_COUNTER, KEEPER_STATE, repair_attempts, source,
                   loc, repaired, failed, result, h_start, h_prev, h_streak,
                   h_tampers>>

\* The read-back, the comparison and the validation of what was written.
WVerify ==
    /\ pc = "w_verify"
    /\ IF fault[loc] = "read"
       THEN WriteFails("read failed") /\ UNCHANGED tmpf
       ELSE LET written_data == tmpf[loc]
            IN  IF written_data # source.data \/ ~ValidOf(written_data)
                THEN /\ tmpf' = [tmpf EXCEPT ![loc] = ABSENT]
                     /\ WriteFails("Verification failed")
                ELSE /\ pc' = "w_chmod"
                     /\ UNCHANGED <<tmpf, wres>>
    /\ UNCHANGED <<h_disk, mode, exit_code, status, fs, dirs, fault, CANARY, RUNNING,
                   REPAIR_COUNTER, KEEPER_STATE, repair_attempts, source, loc,
                   repaired, failed, result, h_start, h_prev, h_streak, h_tampers>>

\* The permissions of the temp file.
WChmod ==
    /\ pc = "w_chmod"
    /\ IF fault[loc] = "chmod"
       THEN WriteFails("chmod failed")
       ELSE pc' = "w_rename" /\ UNCHANGED wres
    /\ UNCHANGED <<h_disk, mode, exit_code, status, fs, tmpf, dirs, fault, CANARY, RUNNING,
                   REPAIR_COUNTER, KEEPER_STATE, repair_attempts, source, loc,
                   repaired, failed, result, h_start, h_prev, h_streak, h_tampers>>

\* The rename of the temp file over the target.
WRename ==
    /\ pc = "w_rename"
    /\ IF fault[loc] = "rename"
       THEN WriteFails("rename failed") /\ UNCHANGED <<fs, tmpf>>
       ELSE /\ fs' = [fs EXCEPT ![loc] = tmpf[loc]]
            /\ tmpf' = [tmpf EXCEPT ![loc] = ABSENT]
            /\ wres' = "ok"
            /\ pc' = "w_ret"
    /\ UNCHANGED <<h_disk, mode, exit_code, status, dirs, fault, CANARY, RUNNING,
                   REPAIR_COUNTER, KEEPER_STATE, repair_attempts, source, loc,
                   repaired, failed, result, h_start, h_prev, h_streak, h_tampers>>

(***************************************************************************)
(* What the callers do with the result of check_and_repair.                *)
(***************************************************************************)
\* run_service: the match on the result of the check; memory corruption
\* breaks out of the loop.
AfterCheck ==
    /\ mode = "service"
    /\ pc = "after"
    /\ pc' = IF result # "ok" /\ result = ERR_MEMORY THEN "final" ELSE "status"
    /\ source' = NoBest
    /\ loc' = 0
    /\ repaired' = 0
    /\ failed' = 0
    /\ result' = ""
    /\ h_start' = NoSnapshot
    /\ h_prev' = "clean"
    /\ h_disk' = ""
    /\ UNCHANGED <<mode, exit_code, status, fs, tmpf, dirs, fault, CANARY, RUNNING,
                   REPAIR_COUNTER, KEEPER_STATE, repair_attempts, wres, h_streak,
                   h_tampers>>

\* run_service: write_status when five minutes have passed since the last one
\* (the clock decides: `due`).
StatusTick ==
    /\ mode = "service"
    /\ pc = "status"
    /\ \E due \in BOOLEAN : status' = IF due THEN "written" ELSE "skipped"
    /\ pc' = "critical"
    /\ UNCHANGED <<h_disk, mode, exit_code, fs, tmpf, dirs, fault, CANARY, RUNNING,
                   REPAIR_COUNTER, KEEPER_STATE, repair_attempts, source, loc,
                   repaired, failed, result, wres, h_start, h_prev, h_streak,
                   h_tampers>>

\* Mutant: the loop goes on whatever the state.
CriticalCheck_NoStop ==
    /\ mode = "service"
    /\ pc = "critical"
    /\ pc' = "top"
    /\ status' = ""
    /\ UNCHANGED <<h_disk, mode, exit_code, fs, tmpf, dirs, fault, CANARY, RUNNING,
                   REPAIR_COUNTER, KEEPER_STATE, repair_attempts, source, loc,
                   repaired, failed, result, wres, h_start, h_prev, h_streak,
                   h_tampers>>

\* run_service: the stop on Critical at the end of the loop body.
CriticalCheck ==
    /\ mode = "service"
    /\ pc = "critical"
    /\ pc' = IF KEEPER_STATE = "Critical" THEN "final" ELSE "top"
    /\ status' = ""
    /\ UNCHANGED <<h_disk, mode, exit_code, fs, tmpf, dirs, fault, CANARY, RUNNING,
                   REPAIR_COUNTER, KEEPER_STATE, repair_attempts, source, loc,
                   repaired, failed, result, wres, h_start, h_prev, h_streak,
                   h_tampers>>

\* run_service after the loop: the final status; main then returns.
FinalStatus ==
    /\ mode = "service"
    /\ pc = "final"
    /\ status' = "written"
    /\ exit_code' = 0
    /\ pc' = "exited"
    /\ UNCHANGED <<h_disk, mode, fs, tmpf, dirs, fault, CANARY, RUNNING, REPAIR_COUNTER,
                   KEEPER_STATE, repair_attempts, source, loc, repaired, failed,
                   result, wres, h_start, h_prev, h_streak, h_tampers>>

\* main, single check mode: exit(0) on Ok, exit(1) on Err.
AfterCheckOneShot ==
    /\ mode = "oneshot"
    /\ pc = "after"
    /\ exit_code' = IF result = "ok" THEN 0 ELSE 1
    /\ pc' = "exited"
    /\ UNCHANGED <<h_disk, mode, status, fs, tmpf, dirs, fault, CANARY, RUNNING,
                   REPAIR_COUNTER, KEEPER_STATE, repair_attempts, source, loc,
                   repaired, failed, result, wres, h_start, h_prev, h_streak,
                   h_tampers>>

(***************************************************************************)
(* The world outside the process.                                          *)
(***************************************************************************)
\* SIGTERM or SIGINT: signal_handler clears RUNNING.
Signal ==
    /\ mode = "service"
    /\ pc \in SignalPcs
    /\ h_tampers = 0
    /\ RUNNING
    /\ RUNNING' = FALSE
    /\ UNCHANGED <<h_disk, mode, pc, exit_code, status, fs, tmpf, dirs, fault, CANARY,
                   REPAIR_COUNTER, KEEPER_STATE, repair_attempts, source, loc,
                   repaired, failed, result, wres, h_start, h_prev, h_streak,
                   h_tampers>>

\* The canary static is overwritten before a check reads it.
CorruptCanary ==
    /\ pc \in {"top", "preflight"}
    /\ h_tampers = 0
    /\ CANARY = MEMORY_CANARY
    /\ CANARY' = CORRUPTED_CANARY
    /\ UNCHANGED <<h_disk, mode, pc, exit_code, status, fs, tmpf, dirs, fault, RUNNING,
                   REPAIR_COUNTER, KEEPER_STATE, repair_attempts, source, loc,
                   repaired, failed, result, wres, h_start, h_prev, h_streak,
                   h_tampers>>

\* Between two checks something deletes a replica or truncates it.
Tamper ==
    /\ mode = "service"
    /\ pc = "top"
    /\ h_prev # "none"
    /\ h_tampers < MaxTampers
    /\ REPAIR_COUNTER < MaxRepairs
    /\ \E l \in Locs, v \in TamperValues :
         /\ v # fs[l]
         /\ fs' = [fs EXCEPT ![l] = v]
    /\ h_tampers' = h_tampers + 1
    /\ h_prev' = "tampered"
    /\ UNCHANGED <<h_disk, mode, pc, exit_code, status, tmpf, dirs, fault, CANARY, RUNNING,
                   REPAIR_COUNTER, KEEPER_STATE, repair_attempts, source, loc,
                   repaired, failed, result, wres, h_start, h_streak>>

\* Between two checks whatever made the repairs of a location fail goes away
\* (permissions are restored, room is made on the disk).
Heal ==
    /\ mode = "service"
    /\ pc = "top"
    /\ h_prev # "none"
    /\ h_tampers < MaxTampers
    /\ \E l \in Locs : fault[l] # "none"
    /\ fault' = [l \in Locs |-> "none"]
    /\ h_tampers' = h_tampers + 1
    /\ h_prev' = "tampered"
    /\ UNCHANGED <<h_disk, mode, pc, exit_code, status, fs, tmpf, dirs, CANARY,
                   RUNNING, REPAIR_COUNTER, KEEPER_STATE, repair_attempts, source,
                   loc, repaired, failed, result, wres, h_start, h_streak>>

\* The locations where a replica is deleted or put back from outside.
RestoredLocs == {1}

\* Between two checks someone deletes a replica; MaxWideRepairs bounds the
\* repairs that follow.
Delete ==
    /\ mode = "service"
    /\ pc = "top"
    /\ h_prev # "none"
    /\ h_tampers < MaxTampers
    /\ REPAIR_COUNTER < MaxWideRepairs
    /\ \E l \in RestoredLocs :
         /\ fs[l] # ABSENT
         /\ fs' = [fs EXCEPT ![l] = ABSENT]
    /\ h_tampers' = h_tampers + 1
    /\ h_prev' = "tampered"
    /\ UNCHANGED <<h_disk, mode, pc, exit_code, status, tmpf, dirs, fault, CANARY,
                   RUNNING, REPAIR_COUNTER, KEEPER_STATE, repair_attempts, source,
                   loc, repaired, failed, result, wres, h_start, h_streak>>

\* Between two checks someone puts a valid replica back where one is missing.
Restore ==
    /\ mode = "service"
    /\ pc = "top"
    /\ h_prev # "none"
    /\ h_tampers < MaxTampers
    /\ \E l \in RestoredLocs :
         /\ fs[l] = ABSENT
         /\ l \in dirs
         /\ fs' = [fs EXCEPT ![l] = "A"]
    /\ h_tampers' = h_tampers + 1
    /\ h_prev' = "tampered"
    /\ UNCHANGED <<h_disk, mode, pc, exit_code, status, tmpf, dirs, fault, CANARY,
                   RUNNING, REPAIR_COUNTER, KEEPER_STATE, repair_attempts, source,
                   loc, repaired, failed, result, wres, h_start, h_streak>>

\* The process is killed in the middle of write_binary_atomic_safe.
Kill ==
    /\ pc \in WritePcs
    /\ pc' = "killed"
    /\ UNCHANGED <<h_disk, mode, exit_code, status, fs, tmpf, dirs, fault, CANARY, RUNNING,
                   REPAIR_COUNTER, KEEPER_STATE, repair_attempts, source, loc,
                   repaired, failed, result, wres, h_start, h_prev, h_streak,
                   h_tampers>>

(***************************************************************************)
(* guardian-keeper-spacex.rs: run_service and check_and_repair.            *)
(***************************************************************************)
preflight_check_spacex(canary, disk) ==
    IF canary # MEMORY_CANARY THEN ERR_MEMORY
    ELSE IF disk = "low" THEN ERR_LOW_DISK
    ELSE ""

\* run_service: the while test.
LoopTop_spacex ==
    /\ mode = "spacex"
    /\ pc = "top"
    /\ pc' = IF RUNNING THEN "sleep" ELSE "final"
    /\ h_tampers' = 0
    /\ UNCHANGED <<h_disk, mode, exit_code, status, fs, tmpf, dirs, fault, CANARY,
                   RUNNING, REPAIR_COUNTER, KEEPER_STATE, repair_attempts, source,
                   loc, repaired, failed, result, wres, h_start, h_prev, h_streak>>

\* run_service: the sleep until next_check, after which check_and_repair is
\* called.
Sleep_spacex ==
    /\ mode = "spacex"
    /\ pc = "sleep"
    /\ pc' = "preflight"
    /\ h_start' = Snapshot
    /\ UNCHANGED <<h_disk, mode, exit_code, status, fs, tmpf, dirs, fault, CANARY,
                   RUNNING, REPAIR_COUNTER, KEEPER_STATE, repair_attempts, source,
                   loc, repaired, failed, result, wres, h_prev, h_streak,
                   h_tampers>>

\* check_and_repair: the pre-flight part; only memory corruption returns.
Preflight_spacex ==
    /\ mode = "spacex"
    /\ pc = "preflight"
    /\ \E disk \in {"ok", "low"} :
         LET e == preflight_check_spacex(CANARY, disk)
         IN  IF e = ERR_MEMORY
             THEN result' = e /\ pc' = "after"
             ELSE result' = "" /\ pc' = "scan"
    /\ UNCHANGED <<h_disk, mode, exit_code, status, fs, tmpf, dirs, fault, CANARY,
                   RUNNING, REPAIR_COUNTER, KEEPER_STATE, repair_attempts, source,
                   loc, repaired, failed, wres, h_start, h_prev, h_streak,
                   h_tampers>>

\* What one turn of the repair loop does at location l: "skip" (breaker open,
\* or no parent directory to be had), "none" (no repair needed), "ok" or
\* "fail" (the result of write_binary_atomic).
RepairOutcome_spacex(l, source_checksum) ==
    IF repair_attempts[l] >= MAX_REPAIR_ATTEMPTS THEN "skip"
    ELSE IF l \notin dirs /\ fault[l] = "mkdir" THEN "skip"
    ELSE IF fs[l] # ABSENT /\ CrcOf(fs[l]) = source_checksum /\ ValidSpacexOf(fs[l])
    THEN "none"
    ELSE IF tmpf[l] # ABSENT \/ fault[l] = "open" THEN "fail"
    ELSE "ok"

\* check_and_repair after the pre-flight: find_source_binary and the repair
\* loop over every location.
FindAndRepair_spacex ==
    /\ mode = "spacex"
    /\ pc = "scan"
    /\ \E order \in Orders(DOMAIN ScanFrom_spacex(fs, 1, NoCandidates)) :
         LET r == find_source_binary_spacex(fs, order)
             out == [l \in Locs |-> RepairOutcome_spacex(l, r.best.crc)]
             done == {l \in Locs : out[l] = "ok"}
         IN  IF r.err # ""
             THEN /\ result' = r.err
                  /\ UNCHANGED <<fs, dirs, repair_attempts, REPAIR_COUNTER,
                                 repaired, source>>
             ELSE /\ result' = "ok"
                  /\ source' = r.best
                  /\ dirs' = dirs \cup {l \in Locs : out[l] # "skip"}
                  /\ fs' = [l \in Locs |-> IF l \in done THEN r.best.data ELSE fs[l]]
                  /\ repair_attempts' =
                         [l \in Locs |-> IF out[l] = "ok" THEN 0
                                         ELSE IF out[l] = "fail"
                                         THEN repair_attempts[l] + 1
                                         ELSE repair_attempts[l]]
                  /\ repaired' = Cardinality(done)
                  /\ REPAIR_COUNTER' = REPAIR_COUNTER + Cardinality(done)
    /\ pc' = "after"
    /\ UNCHANGED <<h_disk, mode, exit_code, status, tmpf, fault, CANARY, RUNNING,
                   KEEPER_STATE, loc, failed, wres, h_start, h_prev, h_streak,
                   h_tampers>>

\* run_service: the match on the result of the check; nothing leaves the loop.
AfterCheck_spacex ==
    /\ mode = "spacex"
    /\ pc = "after"
    /\ pc' = "status"
    /\ h_prev' = IF result = ERR_MEMORY THEN "memory" ELSE "clean"
    /\ source' = NoBest
    /\ repaired' = 0
    /\ result' = ""
    /\ h_start' = NoSnapshot
    /\ UNCHANGED <<h_disk, mode, exit_code, status, fs, tmpf, dirs, fault, CANARY,
                   RUNNING, REPAIR_COUNTER, KEEPER_STATE, repair_attempts, loc,
                   failed, wres, h_streak, h_tampers>>

\* run_service: write_status when five minutes have passed since the last one.
StatusTick_spacex ==
    /\ mode = "spacex"
    /\ pc = "status"
    /\ \E due \in BOOLEAN : status' = IF due THEN "written" ELSE "skipped"
    /\ pc' = "top"
    /\ UNCHANGED <<h_disk, mode, exit_code, fs, tmpf, dirs, fault, CANARY, RUNNING,
                   REPAIR_COUNTER, KEEPER_STATE, repair_attempts, source, loc,
                   repaired, failed, result, wres, h_start, h_prev, h_streak,
                   h_tampers>>

\* run_service after the loop: the final status; main then returns.
FinalStatus_spacex ==
    /\ mode = "spacex"
    /\ pc = "final"
    /\ status' = "written"
    /\ exit_code' = 0
    /\ pc' = "exited"
    /\ UNCHANGED <<h_disk, mode, fs, tmpf, dirs, fault, CANARY, RUNNING,
                   REPAIR_COUNTER, KEEPER_STATE, repair_attempts, source, loc,
                   repaired, failed, result, wres, h_start, h_prev, h_streak,
                   h_tampers>>

\* SIGTERM, SIGINT or Ctrl-C: RUNNING is cleared.
Signal_spacex ==
    /\ mode = "spacex"
    /\ pc \in {"top", "sleep", "after"}
    /\ h_tampers = 0
    /\ RUNNING
    /\ RUNNING' = FALSE
    /\ UNCHANGED <<h_disk, mode, pc, exit_code, status, fs, tmpf, dirs, fault, CANARY,
                   REPAIR_COUNTER, KEEPER_STATE, repair_attempts, source, loc,
                   repaired, failed, result, wres, h_start, h_prev, h_streak,
                   h_tampers>>

\* Between two checks something deletes a replica.
Tamper_spacex ==
    /\ mode = "spacex"
    /\ pc = "top"
    /\ h_prev # "none"
    /\ h_tampers < MaxTampers
    /\ REPAIR_COUNTER < MaxRepairs
    /\ \E l \in Locs :
         /\ fs[l] # ABSENT
         /\ fs' = [fs EXCEPT ![l] = ABSENT]
    /\ h_tampers' = h_tampers + 1
    /\ UNCHANGED <<h_disk, mode, pc, exit_code, status, tmpf, dirs, fault, CANARY,
                   RUNNING, REPAIR_COUNTER, KEEPER_STATE, repair_attempts, source,
                   loc, repaired, failed, result, wres, h_start, h_prev, h_streak>>

(***************************************************************************)
(* Specifications.                                                         *)
(***************************************************************************)
\* The service: run_service with the world around it.
Next ==
    \/ LoopTop
    \/ SleepUntilNextCheck
    \/ Preflight
    \/ FindSource
    \/ RepairIter
    \/ WOpen
    \/ WWrite
    \/ WWriteRest
    \/ WSync
    \/ WVerify
    \/ WChmod
    \/ WRename
    \/ RepairResult
    \/ FinishCycle
    \/ AfterCheck
    \/ StatusTick
    \/ CriticalCheck
    \/ FinalStatus
    \/ Signal
    \/ CorruptCanary
    \/ Tamper
    \/ Heal

Spec == Init /\ [][Next]_vars

\* One check in single check mode, which a kill may cut short.
NextCycle ==
    \/ Preflight
    \/ FindSource
    \/ RepairIter
    \/ WOpen
    \/ WWrite
    \/ WWriteRest
    \/ WSync
    \/ WVerify
    \/ WChmod
    \/ WRename
    \/ RepairResult
    \/ FinishCycle
    \/ AfterCheckOneShot
    \/ CorruptCanary
    \/ Kill

SpecCycle == InitCycle /\ [][NextCycle]_vars

\* find_source_binary alone, over every blob.
NextSelect == FindSource

SpecSelect == InitSelect /\ [][NextSelect]_vars

\* find_source_binary alone, over TieLocations locations.
SpecTie == InitTie /\ [][NextSelect]_vars

\* One check in single check mode over WideLocations locations.
NextWide ==
    \/ Preflight
    \/ FindSource
    \/ RepairIter
    \/ WOpen
    \/ WWrite
    \/ WWriteRest
    \/ WSync
    \/ WVerify
    \/ WChmod
    \/ WRename
    \/ RepairResult
    \/ FinishCycle
    \/ AfterCheckOneShot

SpecWide == InitWide /\ [][NextWide]_vars

\* The service of guardian-keeper-spacex.rs with the world around it.
NextSpacex ==
    \/ LoopTop_spacex
    \/ Sleep_spacex
    \/ Preflight_spacex
    \/ FindAndRepair_spacex
    \/ AfterCheck_spacex
    \/ StatusTick_spacex
    \/ FinalStatus_spacex
    \/ Signal_spacex
    \/ CorruptCanary
    \/ Tamper_spacex

SpecSpacex == InitSpacex /\ [][NextSpacex]_vars

\* The service over WideLocations locations; outside it a signal ends it, the
\* cause of failed repairs goes away, a missing replica is put back.
NextWideService ==
    \/ LoopTop
    \/ SleepUntilNextCheck
    \/ Preflight
    \/ FindSource
    \/ RepairIter
    \/ WOpen
    \/ WWrite
    \/ WWriteRest
    \/ WSync
    \/ WVerify
    \/ WChmod
    \/ WRename
    \/ RepairResult
    \/ FinishCycle
    \/ AfterCheck
    \/ StatusTick
    \/ CriticalCheck
    \/ FinalStatus
    \/ Signal
    \/ Heal
    \/ Restore
    \/ Delete

SpecWideService == InitWideService /\ [][NextWideService]_vars

\* check_and_repair: the call of find_source_binary returns, with an error
\* or with a source (the step FindSource, told by the program point alone).
ScanReturns == pc = "scan" /\ pc' \in {"after", "repair"}

\* The other steps of the service's one thread.
ServiceStep ==
    \/ LoopTop
    \/ SleepUntilNextCheck
    \/ Preflight
    \/ RepairIter
    \/ WOpen
    \/ WWrite
    \/ WWriteRest
    \/ WSync
    \/ WVerify
    \/ WChmod
    \/ WRename
    \/ RepairResult
    \/ FinishCycle
    \/ AfterCheck
    \/ StatusTick
    \/ CriticalCheck
    \/ FinalStatus

\* The same service when its thread keeps running: every sleep and every call
\* it makes returns.  Nothing is assumed of the world outside.
SpecShutdown ==
    /\ InitWideService
    /\ [][NextWideService]_vars
    /\ WF_vars(ServiceStep)
    /\ WF_pc(ScanReturns)

(***************************************************************************)
(* guardian-keeper-v2.rs: Guardian::run_service and check_and_repair.  The  *)
(* variables are used as follows: `source` is state.source_binary (NoBest   *)
(* is None), `wres` is the local source_data, `result` the error of the     *)
(* cycle, `dirs` the locations whose parent directory exists.               *)
(***************************************************************************)
ERR_NO_VALID_SOURCE == "No valid source binary found"

V2Blobs == {"A", "B", "Short"}

V2Pcs == {"v2_top", "v2_cycle", "v2_store", "v2_check", "v2_sleep",
          "v2_blocked", "v2_panicked", "exited"}

\* The locations whose parent directory exists.
discover_locations(files, parents) == {l \in DOMAIN files : l \in parents}

\* What load_source_binary can return: the empty set stands for
\* Err(NoValidSource).  The data returned is that of the first candidate
\* whose hash is the one max_by_key picked, so it is the data of one of the
\* candidates; which hash wins depends on DefaultHasher and on the iteration
\* order of the HashMap, and every candidate is allowed here.
load_source_binary(files, parents) ==
    {files[l] : l \in {c \in discover_locations(files, parents) :
                          files[c] # ABSENT /\ ValidV2Of(files[c])}}

check_replica(content, expected_data) ==
    IF content = ABSENT THEN "Missing"
    ELSE IF content = expected_data THEN "Healthy"
    ELSE IF ValidV2Of(content) THEN "Stale"
    ELSE "Corrupted"

\* run_service is about to test `running` for the first time; the first two
\* locations share their parent directory.
InitV2 ==
    /\ mode = "v2"
    /\ pc = "v2_top"
    /\ fs \in [1..V2Locations -> V2Blobs \cup {ABSENT}]
    /\ fault = [l \in Locs |-> "none"]
    /\ dirs \in SUBSET Locs
    /\ Present(fs) \subseteq dirs
    /\ 1 \in dirs <=> 2 \in dirs
    /\ InitProcess
    /\ h_start = NoSnapshot

\* run_service: the while test; after the loop print_stats, and main returns.
V2LoopTop ==
    /\ mode = "v2"
    /\ pc = "v2_top"
    /\ IF RUNNING
       THEN pc' = "v2_cycle" /\ UNCHANGED exit_code
       ELSE pc' = "exited" /\ exit_code' = 0
    /\ UNCHANGED <<h_disk, mode, status, fs, tmpf, dirs, fault, CANARY, RUNNING,
                   REPAIR_COUNTER, KEEPER_STATE, repair_attempts, source, loc,
                   repaired, failed, result, wres, h_start, h_prev, h_streak,
                   h_tampers>>

\* check_and_repair: the match on state.source_binary.read().  The Some arm
\* clones what is stored; the None arm calls load_source_binary, whose error
\* ends the cycle (run_service prints it and goes to sleep).  check_count, a
\* statistic that decides nothing, is not kept.
V2LoadOrReuse ==
    /\ mode = "v2"
    /\ pc = "v2_cycle"
    /\ IF source # NoBest
       THEN /\ wres' = source.data
            /\ pc' = "v2_check"
            /\ UNCHANGED result
       ELSE LET found == load_source_binary(fs, dirs)
            IN  IF found = {}
                THEN /\ result' = ERR_NO_VALID_SOURCE
                     /\ pc' = "v2_sleep"
                     /\ UNCHANGED wres
                ELSE /\ wres' \in found
                     /\ pc' = "v2_store"
                     /\ UNCHANGED result
    /\ UNCHANGED <<h_disk, mode, exit_code, status, fs, tmpf, dirs, fault, CANARY,
                   RUNNING, REPAIR_COUNTER, KEEPER_STATE, repair_attempts, source,
                   loc, repaired, failed, h_start, h_prev, h_streak, h_tampers>>

\* check_and_repair, None arm: state.source_binary.write() is called while
\* the read guard made in the scrutinee of the match is still alive (a
\* temporary of the scrutinee lives to the end of the match).  The thread
\* asks for the write lock of an RwLock it holds for reading: it blocks for
\* ever or panics, whichever the standard library of the build does.
V2StoreSource ==
    /\ mode = "v2"
    /\ pc = "v2_store"
    /\ \E outcome \in {"v2_blocked", "v2_panicked"} :
         /\ pc' = outcome
         /\ exit_code' = IF outcome = "v2_panicked" THEN 101 ELSE exit_code
    /\ UNCHANGED <<h_disk, mode, status, fs, tmpf, dirs, fault, CANARY, RUNNING,
                   REPAIR_COUNTER, KEEPER_STATE, repair_attempts, source, loc,
                   repaired, failed, result, wres, h_start, h_prev, h_streak,
                   h_tampers>>

\* run_service: the sleep in steps of 100 ms, then the while test again.
V2Sleep ==
    /\ mode = "v2"
    /\ pc = "v2_sleep"
    /\ pc' = "v2_top"
    /\ result' = ""
    /\ h_tampers' = 0
    /\ h_prev' = "clean"
    /\ UNCHANGED <<h_disk, mode, exit_code, status, fs, tmpf, dirs, fault, CANARY,
                   RUNNING, REPAIR_COUNTER, KEEPER_STATE, repair_attempts, source,
                   loc, repaired, failed, wres, h_start, h_streak>>

\* The handler given to ctrlc stores false into `running`, on its own thread.
V2Signal ==
    /\ mode = "v2"
    /\ pc \in {"v2_top", "v2_sleep", "v2_blocked"}
    /\ RUNNING
    /\ RUNNING' = FALSE
    /\ UNCHANGED <<h_disk, mode, pc, exit_code, status, fs, tmpf, dirs, fault, CANARY,
                   REPAIR_COUNTER, KEEPER_STATE, repair_attempts, source, loc,
                   repaired, failed, result, wres, h_start, h_prev, h_streak,
                   h_tampers>>

\* Between two cycles a file is put, changed or deleted at a location whose
\* parent directory exists.
V2Tamper ==
    /\ mode = "v2"
    /\ pc = "v2_top"
    /\ h_prev # "none"
    /\ h_tampers < MaxTampers
    /\ \E l \in dirs, v \in V2Blobs \cup {ABSENT} :
         /\ v # fs[l]
         /\ fs' = [fs EXCEPT ![l] = v]
    /\ h_tampers' = h_tampers + 1
    /\ UNCHANGED <<h_disk, mode, pc, exit_code, status, tmpf, dirs, fault, CANARY,
                   RUNNING, REPAIR_COUNTER, KEEPER_STATE, repair_attempts, source,
                   loc, repaired, failed, result, wres, h_start, h_prev, h_streak>>

NextV2 ==
    \/ V2LoopTop
    \/ V2LoadOrReuse
    \/ V2StoreSource
    \/ V2Sleep
    \/ V2Signal
    \/ V2Tamper

\* A step of the main thread where it is not blocked.
V2Runs ==
    pc \in {"v2_top", "v2_cycle", "v2_store", "v2_sleep"} /\ pc' \in V2Pcs

\* guardian-keeper-v2 in service mode; its main thread keeps running as long
\* as it is not blocked.
SpecV2 == InitV2 /\ [][NextV2]_vars /\ WF_pc(V2Runs)

(***************************************************************************)
(* Properties.                                                             *)
(***************************************************************************)
\* The locations of `files` that hold content passing the validator.
ValidLocsOf(files) == {l \in Locs : files[l] # ABSENT /\ ValidOf(files[l])}

HoldersOf(files, b) == {l \in Locs : files[l] = b}

\* The valid replicas whose CRC-32 is crc, and whether their Fletcher digests differ.
GroupOf(files, crc) == {l \in ValidLocsOf(files) : CrcOf(files[l]) = crc}

DiverseIn(files, crc) ==
    \E l, m \in GroupOf(files, crc) : FletcherOf(files[l]) # FletcherOf(files[m])

\* Strictly more than half of the valid replicas hold the bytes b.
MajorityOf(files, b) ==
    /\ ValidOf(b)
    /\ 2 * Cardinality(HoldersOf(files, b)) > Cardinality(ValidLocsOf(files))

\* No valid replica holds other bytes with the CRC-32 of b.
NoCollisionWith(files, b) ==
    \A l \in GroupOf(files, CrcOf(b)) : files[l] = b

FirstOf(S) == CHOOSE l \in S : \A m \in S : l <= m

C2_DiversityRejection ==
    pc = "repair" => ~DiverseIn(fs, source.crc)

\* C2 witness: the only group that reaches the quorum, and the largest one,
\* disagrees on the Fletcher digest, and no consensus was found.
C2_Witness ==
    /\ pc = "after"
    /\ result = ERR_NO_CONSENSUS
    /\ \E l \in ValidLocsOf(fs) :
         /\ DiverseIn(fs, CrcOf(fs[l]))
         /\ Cardinality(GroupOf(fs, CrcOf(fs[l]))) >= CONSENSUS_THRESHOLD
         /\ \A m \in ValidLocsOf(fs) :
              Cardinality(GroupOf(fs, CrcOf(fs[m])))
                  <= Cardinality(GroupOf(fs, CrcOf(fs[l])))

\* No group of valid replicas with one Fletcher digest reaches the quorum.
NoQuorumIn(files) ==
    \A l \in ValidLocsOf(files) :
        \/ DiverseIn(files, CrcOf(files[l]))
        \/ Cardinality(GroupOf(files, CrcOf(files[l]))) < CONSENSUS_THRESHOLD

InRepairLoop == pc \in {"repair", "w_ret", "killed"} \cup WritePcs

\* C3: a check that starts without a quorum never enters the repair loop,
\* returns an error, and leaves every replica, temp file and directory and the
\* repair counter as they were.
C3_NoQuorumFails ==
    (h_start # NoSnapshot /\ NoQuorumIn(h_start.fs)) =>
        /\ ~InRepairLoop
        /\ fs = h_start.fs
        /\ tmpf = h_start.tmpf
        /\ dirs = h_start.dirs
        /\ REPAIR_COUNTER = h_start.repairs
        /\ pc \in {"after", "exited"} => result \notin {"", "ok"}
        /\ pc = "exited" => exit_code = 1

\* C3 witness: two replicas hold A, two hold B, one is missing, and the check
\* has failed for want of consensus.
C3_Witness ==
    /\ pc = "after"
    /\ result = ERR_NO_CONSENSUS
    /\ Cardinality(HoldersOf(h_start.fs, "A")) = 2
    /\ Cardinality(HoldersOf(h_start.fs, "B")) = 2
    /\ Cardinality(HoldersOf(h_start.fs, ABSENT)) = 1

\* A check has returned Ok with no failed write and no location skipped for
\* want of a parent directory.
CleanCycleDone ==
    /\ pc = "after"
    /\ result = "ok"
    /\ failed = 0
    /\ dirs = Locs

\* C4 as stated: after a check that found consensus and in which every write
\* succeeded, every location holds the canonical bytes and the count is the
\* number of locations that did not hold them at the start.
C4_AllCanonical ==
    CleanCycleDone =>
        /\ \A l \in Locs : fs[l] = source.data
        /\ repaired = Cardinality({l \in Locs : h_start.fs[l] # source.data})

\* C4 witness: every write succeeded, nothing was counted as repaired, and a
\* location still holds valid bytes that are not the canonical ones but have
\* their CRC-32.
C4_Witness ==
    /\ CleanCycleDone
    /\ repaired = 0
    /\ \E l \in Locs :
         /\ fs[l] # source.data
         /\ fs[l] = h_start.fs[l]
         /\ ValidOf(fs[l])
         /\ CrcOf(fs[l]) = source.crc

C6_TargetOldOrNew ==
    /\ \A l \in Locs :
         \/ fs[l] = h_start.fs[l]
         \/ source # NoBest /\ fs[l] = source.data
    /\ pc = "killed" =>
         \A l \in Locs : (l # loc /\ fault[l] = "none") => tmpf[l] = h_start.tmpf[l]

\* C6 witness: killed with half of the data in the temp file, the stale target
\* as it was.
C6_Witness ==
    /\ pc = "killed"
    /\ tmpf[loc] = Torn(source.data)
    /\ fs[loc] = h_start.fs[loc]
    /\ fs[loc] \notin {ABSENT, source.data}

StoppedPcs == {"after", "status", "critical", "final", "exited"}

\* C8: a check that reads a wrong canary returns the memory corruption error
\* with every file as it was and the state Critical, and run_service leaves its
\* loop on that error and starts no further check.
C8_CanaryStopsService ==
    [][ /\ (pc = "preflight" /\ pc' # pc /\ CANARY # MEMORY_CANARY) =>
            /\ pc' = "after"
            /\ result' = ERR_MEMORY
            /\ KEEPER_STATE' = "Critical"
            /\ fs' = fs /\ tmpf' = tmpf /\ dirs' = dirs
            /\ REPAIR_COUNTER' = REPAIR_COUNTER
        /\ (pc = "after" /\ result = ERR_MEMORY /\ pc' # pc) => pc' = "final"
        /\ (pc = "final" /\ pc' # pc) => pc' = "exited"
        /\ pc = "exited" => pc' = "exited"
      ]_vars

\* C8 witness: the service has left its loop on the memory corruption error,
\* with no signal and the repair count within its limit.
C8_Witness ==
    /\ pc = "final"
    /\ CANARY # MEMORY_CANARY
    /\ KEEPER_STATE = "Critical"
    /\ RUNNING
    /\ REPAIR_COUNTER <= REPAIR_LIMIT

\* C9: a check that starts with more than REPAIR_LIMIT repairs counted sets the
\* state to Critical and returns without scanning, whatever df reports.
C9_RepairCeiling ==
    [][ (pc = "preflight" /\ pc' # pc /\ REPAIR_COUNTER > REPAIR_LIMIT) =>
            /\ KEEPER_STATE' = "Critical"
            /\ pc' = "after"
      ]_vars

\* C9 witness: a check that started above the ceiling has found consensus and
\* is in its repair loop, the state not Critical.
C9_Witness ==
    /\ pc = "repair"
    /\ h_start.repairs > REPAIR_LIMIT
    /\ KEEPER_STATE # "Critical"

\* C10: once the state is Critical it stays Critical, no replica and no temp
\* file is written, and the service starts no further check.
C10_CriticalIsTerminal ==
    [][ KEEPER_STATE = "Critical" =>
            /\ KEEPER_STATE' = "Critical"
            /\ fs' = fs /\ tmpf' = tmpf /\ dirs' = dirs
            /\ pc \in StoppedPcs
            /\ pc' \in StoppedPcs
      ]_vars

\* C10 witness: the service has ended, Critical on the repair count alone.
C10_Witness ==
    /\ pc = "exited"
    /\ KEEPER_STATE = "Critical"
    /\ CANARY = MEMORY_CANARY
    /\ REPAIR_COUNTER > REPAIR_LIMIT

\* C11: a check to which df reported too little free space does not end on
\* that report, and ends with the state Caution or Warning, never Normal.
C11_LowDiskDegrades ==
    (h_disk = "low" /\ pc = "after") =>
        /\ result # ERR_LOW_DISK
        /\ KEEPER_STATE \in {"Caution", "Warning"}

\* C11 witness: df reported too little free space, consensus was found among
\* at least CAUTION_BELOW replicas, and the check ended Ok with the state
\* Normal.
C11_Witness ==
    /\ pc = "after"
    /\ h_disk = "low"
    /\ CANARY = MEMORY_CANARY
    /\ result = "ok"
    /\ source.count >= CAUTION_BELOW
    /\ KEEPER_STATE = "Normal"

\* C12: a service process that has ended with the state Critical has ended
\* with an exit code other than 0.
C12_CriticalExitNonZero ==
    (mode = "service" /\ pc = "exited" /\ KEEPER_STATE = "Critical") =>
        exit_code # 0

\* C12 witness: the service has left its loop on a wrong canary and the
\* process has ended with exit code 0.
C12_Witness ==
    /\ mode = "service"
    /\ pc = "exited"
    /\ KEEPER_STATE = "Critical"
    /\ CANARY # MEMORY_CANARY
    /\ exit_code = 0

\* C13: the single check mode exits non-zero when its check returned an error,
\* and exits 0 only when the check returned Ok and no location is left in need
\* of repair.
C13_OneShotExitCode ==
    (mode = "oneshot" /\ pc = "exited") =>
        /\ result # "ok" => exit_code # 0
        /\ exit_code = 0 =>
             /\ result = "ok"
             /\ \A l \in Locs : ~needs_repair(fs[l], source.crc)

\* C13 witness: the single check mode has exited with 0 after a check in which
\* a write failed, and the location still needs repair.
C13_Witness ==
    /\ mode = "oneshot"
    /\ pc = "exited"
    /\ exit_code = 0
    /\ failed > 0
    /\ \E l \in Locs : needs_repair(fs[l], source.crc)

\* C14: in the service, when the status step of a loop turn is over the status
\* record has been written in that turn, and it has been written when the
\* process has ended.
C14_StatusEveryCycle ==
    mode = "service" =>
        /\ pc = "critical" => status = "written"
        /\ pc = "exited" => status = "written"

\* C14 witness: a check has returned Ok and the loop turn has gone past its
\* status step without writing the status record.
C14_Witness ==
    /\ mode = "service"
    /\ pc = "critical"
    /\ status = "skipped"
    /\ KEEPER_STATE # "Critical"

\* C15: while RUNNING is cleared no step of the service starts a check.
C15_NoCycleAfterShutdown ==
    [][ (mode = "service" /\ ~RUNNING /\ pc # "preflight") => pc' # "preflight"
      ]_vars

\* C15 witness: a check is about to run its pre-flight although RUNNING was
\* cleared.
C15_Witness ==
    /\ mode = "service"
    /\ pc = "preflight"
    /\ ~RUNNING

\* C16: a location whose path is refused as unsafe keeps its target, has no
\* temp file and no parent directory created for it, and the check goes on to
\* its end.
C16_UnsafeRefusedUntouched ==
    /\ \A l \in Locs :
         fault[l] = "unsafe" =>
             /\ fs[l] = h_start.fs[l]
             /\ tmpf[l] = h_start.tmpf[l]
             /\ l \in dirs => l \in h_start.dirs
    /\ (pc = "after" /\ fault = UnsafeHome /\ source # NoBest) => result = "ok"

\* C16 witness: the check has ended Ok after refusing a location as unsafe,
\* and the parent directory of that location, missing at the start, exists.
C16_Witness ==
    /\ pc = "after"
    /\ result = "ok"
    /\ failed > 0
    /\ \E l \in Locs :
         /\ fault[l] = "unsafe"
         /\ fs[l] = ABSENT
         /\ tmpf[l] = ABSENT
         /\ l \in dirs \ h_start.dirs

\* C17: when the temp file read back is not the canonical bytes or is not
\* valid, write_binary_atomic_safe removes the temp file, leaves the target
\* alone and returns "Verification failed"; check_and_repair then adds one to
\* the ledger entry of that location, leaves the others and the files alone,
\* and goes to the next location.
C17_VerificationFailure ==
    [][ /\ ( /\ pc = "w_verify"
             /\ pc' \notin {pc, "killed"}
             /\ fault[loc] # "read"
             /\ (tmpf[loc] # source.data \/ ~ValidOf(tmpf[loc])) )
           => /\ tmpf' = [tmpf EXCEPT ![loc] = ABSENT]
              /\ fs' = fs
              /\ wres' = "Verification failed"
              /\ pc' = "w_ret"
        /\ (pc = "w_ret" /\ wres = "Verification failed" /\ pc' # pc)
           => /\ tmpf[loc] = ABSENT
              /\ repair_attempts' = [repair_attempts EXCEPT ![loc] = @ + 1]
              /\ fs' = fs /\ tmpf' = tmpf
              /\ loc' = loc + 1
              /\ pc' = "repair"
      ]_vars

\* C17 witness: a check has ended Ok past a location whose temp file failed the
\* verification: no temp file, the target as it was, one failure in the ledger.
C17_Witness ==
    /\ pc = "after"
    /\ result = "ok"
    /\ \E l \in Locs :
         /\ fault[l] = "verify"
         /\ repair_attempts[l] = 1
         /\ tmpf[l] = ABSENT
         /\ fs[l] = h_start.fs[l]
         /\ needs_repair(fs[l], source.crc)

\* C18: the step that takes the result of a write sets the ledger entry of the
\* location written to 0 after a success and to one more than it was after a
\* failure, and leaves every other entry as it was; no other step changes the
\* ledger.
C18_LedgerUpdate ==
    [][ IF pc = "w_ret" /\ pc' # pc
        THEN repair_attempts' =
                 [repair_attempts EXCEPT
                     ![loc] = IF wres = "ok" THEN 0 ELSE @ + 1]
        ELSE repair_attempts' = repair_attempts
      ]_vars

\* C18 witness: a write has succeeded on a location that has two failures in
\* the ledger, and the step that clears the entry is next.
C18_Witness ==
    /\ pc = "w_ret"
    /\ wres = "ok"
    /\ repair_attempts[loc] = 2
    /\ fs[loc] = source.data

\* C19: every replica find_source_binary has taken as valid, the one it
\* returns included, holds the bytes of GUARDIAN_SIGNATURE somewhere.
C19_MarkerRequired ==
    pc # "scan" =>
        /\ \A l \in ValidLocsOf(fs) : SignatureIn(fs[l])
        /\ pc = "repair" => SignatureIn(source.data)

\* C19 witness: find_source_binary has returned bytes that begin with a
\* shebang and hold no signature, while a replica with the signature exists.
C19_Witness ==
    /\ pc = "repair"
    /\ ~SignatureIn(source.data)
    /\ \E l \in ValidLocsOf(fs) : SignatureIn(fs[l])

C21_HeaderDecides ==
    \A l \in Locs :
        fs[l] # ABSENT => (ValidV2Of(fs[l]) <=> HeaderOf(fs[l]))

\* C21 witness: a replica holds the first input of test_binary_validation, 24
\* bytes that begin with the ELF magic, and validate_binary returns false on it.
C21_Witness ==
    /\ pc # "scan"
    /\ \E l \in Locs :
         /\ fs[l] = "ElfTest"
         /\ HeaderOf(fs[l])
         /\ LenOf(fs[l]) = 24
         /\ ~ValidV2Of(fs[l])

\* C22: in every check the bytes find_source_binary returned pass the
\* validator, its scan (looked at when it has just returned, the files as it
\* read them) counted for every CRC-32 the valid replicas of that CRC-32 and
\* no others, and every target that was written holds the returned bytes,
\* which pass the validator.
C22_OnlyValidCanonical ==
    /\ source # NoBest => ValidOf(source.data)
    /\ (pc = "repair" /\ loc = 1) =>
         LET candidates == ScanAll(fs)
         IN  /\ source.count = Cardinality(GroupOf(fs, source.crc))
             /\ \A crc \in DOMAIN candidates :
                    candidates[crc].count = Cardinality(GroupOf(fs, crc))
    /\ \A l \in Locs :
         fs[l] # h_start.fs[l] => fs[l] = source.data /\ ValidOf(fs[l])

\* C22 witness: two replicas held bytes that fail the validator, the others
\* agreed on valid bytes, and the check has ended with the valid bytes written
\* over an invalid replica.
C22_Witness ==
    /\ pc = "after"
    /\ result = "ok"
    /\ Cardinality({l \in Locs : h_start.fs[l] # ABSENT /\ ~ValidOf(h_start.fs[l])}) >= 2
    /\ source.count = Cardinality(Locs) - 2
    /\ \E l \in Locs :
         /\ h_start.fs[l] # ABSENT
         /\ ~ValidOf(h_start.fs[l])
         /\ fs[l] = source.data
         /\ ValidOf(fs[l])

\* C23: in the service of guardian-keeper-spacex.rs, once a check has failed
\* with the memory corruption error no further check is started.
C23_MemoryCorruptionEndsLoop ==
    (mode = "spacex" /\ h_prev = "memory") =>
        pc \notin {"sleep", "preflight", "scan", "after"}

\* C23 witness: the last check failed with the memory corruption error, no
\* signal has arrived, and the next check is about to run its pre-flight.
C23_Witness ==
    /\ mode = "spacex"
    /\ pc = "preflight"
    /\ h_prev = "memory"
    /\ CANARY # MEMORY_CANARY
    /\ RUNNING

C25_LargestConsistentGroupWins ==
    pc = "repair" =>
        /\ ~DiverseIn(fs, source.crc)
        /\ source.count >= CONSENSUS_THRESHOLD
        /\ source.count = Cardinality(GroupOf(fs, source.crc))
        /\ \A l \in ValidLocsOf(fs) :
              ~DiverseIn(fs, CrcOf(fs[l])) =>
                  Cardinality(GroupOf(fs, CrcOf(fs[l]))) <= source.count

\* C25 witness: a group of four has been returned although a group of three,
\* which reaches the quorum and agrees on its Fletcher-32 too, holds the first
\* replica scanned.
C25_Witness ==
    /\ pc = "repair"
    /\ source.count = CONSENSUS_THRESHOLD + 1
    /\ CrcOf(fs[1]) # source.crc
    /\ Cardinality(GroupOf(fs, CrcOf(fs[1]))) = CONSENSUS_THRESHOLD
    /\ ~DiverseIn(fs, CrcOf(fs[1]))

\* C26: what find_source_binary returns is decided by the contents scanned:
\* whatever order the map of candidates is iterated in, the same group is
\* returned.
C26_SelectionIsAFunctionOfContents ==
    pc = "repair" =>
        \A order \in Orders(DOMAIN ScanAll(fs)) :
            find_source_binary(fs, order).best = source

\* C26 witness: two groups that agree on their Fletcher-32 hold
\* CONSENSUS_THRESHOLD replicas each, the group of the second one scanned has
\* been returned, and another iteration order returns the other group.
C26_Witness ==
    /\ pc = "repair"
    /\ source.count = CONSENSUS_THRESHOLD
    /\ fs[1] # ABSENT
    /\ CrcOf(fs[1]) # source.crc
    /\ ~DiverseIn(fs, CrcOf(fs[1]))
    /\ Cardinality(GroupOf(fs, CrcOf(fs[1]))) = CONSENSUS_THRESHOLD
    /\ \E order \in Orders(DOMAIN ScanAll(fs)) :
         find_source_binary(fs, order).best.crc = CrcOf(fs[1])

\* C27: within one check nothing is written before find_source_binary has
\* returned; what it returns was chosen with every location read (its count is
\* the number of valid replicas of its CRC-32 among all locations at the
\* start, its bytes those of the first of them); it stays as it is to the end
\* of the check; and every target and temp file the check writes receives
\* those bytes.
C27_ScanThenChooseThenRepair ==
    /\ [] ( /\ pc \in {"preflight", "scan"} =>
                 /\ source = NoBest
                 /\ fs = h_start.fs
                 /\ tmpf = h_start.tmpf
            /\ source # NoBest =>
                 /\ source.count = Cardinality(GroupOf(h_start.fs, source.crc))
                 /\ source.data = h_start.fs[FirstOf(GroupOf(h_start.fs, source.crc))]
            /\ \A l \in Locs :
                 /\ fs[l] # h_start.fs[l] => fs[l] = source.data
                 /\ tmpf[l] # h_start.tmpf[l] =>
                      tmpf[l] \in {EMPTY, Torn(source.data), source.data} )
    /\ [][ source # NoBest => source' = source ]_vars

\* C27 witness: the check has ended with two replicas rewritten with the same
\* bytes, and the last location scanned is one of the replicas that agreed.
C27_Witness ==
    /\ pc = "after"
    /\ result = "ok"
    /\ repaired = 2
    /\ h_start.fs[Len(fs)] = source.data
    /\ Cardinality({l \in Locs : fs[l] # h_start.fs[l] /\ fs[l] = source.data}) = 2

\* C28: a check that found consensus returns Ok whatever failed at a location
\* (the path refused, the parent directory, the open, the write, the
\* verification, the rename); every location that needed repair and at which
\* nothing fails holds the canonical bytes at the end, and the number returned
\* is the number of targets rewritten.
C28_FailureIsolation ==
    (pc = "after" /\ source # NoBest) =>
        /\ result = "ok"
        /\ \A l \in Locs :
             (fault[l] = "none" /\ needs_repair(h_start.fs[l], source.crc))
                 => fs[l] = source.data
        /\ repaired = Cardinality({l \in Locs : fs[l] # h_start.fs[l]})

\* C28 witness: the write at one location failed, a location after it was
\* repaired, and the check returned Ok(1).
C28_Witness ==
    /\ pc = "after"
    /\ result = "ok"
    /\ failed = 1
    /\ repaired = 1
    /\ \E l, m \in Locs :
         /\ l < m
         /\ fault[l] \notin {"none", "mkdir"}
         /\ repair_attempts[l] = 1
         /\ needs_repair(fs[l], source.crc)
         /\ fs[m] # h_start.fs[m]
         /\ fs[m] = source.data

\* C29: when the repair loop comes to a location that needs repair, whose
\* breaker is closed and whose parent directory is missing and cannot be
\* created, it adds one to the ledger entry of that location.
C29_MkdirFailureRecorded ==
    [][ ( /\ pc = "repair"
          /\ loc \in Locs
          /\ ~BreakerOpen(repair_attempts[loc])
          /\ loc \notin dirs
          /\ fault[loc] = "mkdir"
          /\ needs_repair(fs[loc], source.crc) )
        => repair_attempts'[loc] = repair_attempts[loc] + 1
      ]_vars

\* C29 witness: the service has ended a check that followed another with no
\* outside change in between; a replica is missing, its parent directory is
\* missing and cannot be created, the ledger has no entry for it and the check
\* counted no failure.
C29_Witness ==
    /\ mode = "service"
    /\ pc = "after"
    /\ h_prev = "clean"
    /\ result = "ok"
    /\ failed = 0
    /\ \E l \in Locs :
         /\ fault[l] = "mkdir"
         /\ l \notin dirs
         /\ fs[l] = ABSENT
         /\ repair_attempts[l] = 0

\* C30: a check that returns Ok after at least one failed repair leaves the
\* state at Caution or worse, and after more than FAILED_WARNING failed repairs
\* at Warning.
C30_FailuresDegrade ==
    (pc = "after" /\ result = "ok") =>
        /\ failed >= 1 => KEEPER_STATE # "Normal"
        /\ failed > FAILED_WARNING => KEEPER_STATE = "Warning"

\* C30 witness: CAUTION_BELOW replicas agreed, the repair of the missing one
\* failed, and the check has returned Ok with the state Normal.
C30_Witness ==
    /\ pc = "after"
    /\ result = "ok"
    /\ source.count = CAUTION_BELOW
    /\ failed = 1
    /\ \E l \in Locs : fs[l] = ABSENT /\ repair_attempts[l] = 1
    /\ KEEPER_STATE = "Normal"

\* C31: a check whose pre-flight passed and that found consensus among c
\* replicas and counted f failed repairs ends with the state Warning when
\* c < 5 or f > 5, Caution when 5 <= c < 10 and f <= 5, Normal when c >= 10
\* and f <= 5, whatever the state was before the check.
C31_StateAfterCheck ==
    (pc = "after" /\ result = "ok" /\ h_disk = "ok") =>
        KEEPER_STATE =
            IF source.count < WARNING_BELOW \/ failed > FAILED_WARNING THEN "Warning"
            ELSE IF source.count < CAUTION_BELOW THEN "Caution"
            ELSE "Normal"

\* C31 witness: the service has ended a check with the state Normal that
\* followed a check which, with fewer than WARNING_BELOW replicas in
\* agreement, had set Warning.
C31_Witness ==
    /\ mode = "service"
    /\ pc = "after"
    /\ result = "ok"
    /\ h_disk = "ok"
    /\ h_prev = "clean"
    /\ source.count >= CAUTION_BELOW
    /\ REPAIR_COUNTER > Cardinality(Locs) - WARNING_BELOW
    /\ KEEPER_STATE = "Normal"

\* C32: in a check whose pre-flight passed, neither the pre-flight step nor a
\* find_source_binary that fails with "No valid binaries found" or "No
\* consensus found" changes the state, the ledger or the repair counter, and
\* the failure ends the check.
C32_FailedCheckKeepsState ==
    [][ /\ (pc = "preflight" /\ pc' = "scan" /\ h_disk' = "ok") =>
             /\ KEEPER_STATE' = KEEPER_STATE
             /\ repair_attempts' = repair_attempts
             /\ REPAIR_COUNTER' = REPAIR_COUNTER
        /\ (pc = "scan" /\ h_disk = "ok"
                /\ result' \in {ERR_NO_VALID, ERR_NO_CONSENSUS}) =>
             /\ pc' = "after"
             /\ KEEPER_STATE' = KEEPER_STATE
             /\ repair_attempts' = repair_attempts
             /\ REPAIR_COUNTER' = REPAIR_COUNTER
      ]_vars

\* C32 witness: a check of the service whose pre-flight passed has failed for
\* want of consensus; earlier checks had repaired replicas, recorded a failure
\* in the ledger and left a state other than Normal, and all of that is still
\* there.
C32_Witness ==
    /\ mode = "service"
    /\ pc = "after"
    /\ h_disk = "ok"
    /\ result = ERR_NO_CONSENSUS
    /\ REPAIR_COUNTER > 0
    /\ KEEPER_STATE \in {"Caution", "Warning"}
    /\ \E l \in Locs : repair_attempts[l] > 0

\* C33: every entry of the ledger is at most MAX_REPAIR_ATTEMPTS (0 stands for
\* a location without entry, so an entry that exists is at least 1), and
\* write_binary_atomic_safe is never under way on a location whose entry has
\* reached MAX_REPAIR_ATTEMPTS.
C33_LedgerBound ==
    /\ \A l \in Locs : repair_attempts[l] \in 0..MAX_REPAIR_ATTEMPTS
    /\ pc \in WritePcs \cup {"w_ret"} => repair_attempts[loc] < MAX_REPAIR_ATTEMPTS

\* C33 witness: the third failure in a row of a location has just been
\* recorded and the repair loop has gone on to the next location.
C33_Witness ==
    /\ pc = "repair"
    /\ loc > 1
    /\ failed = 1
    /\ repair_attempts[loc - 1] = MAX_REPAIR_ATTEMPTS
    /\ h_streak[loc - 1] = MAX_REPAIR_ATTEMPTS

\* No step of the process changes the ledger entry, the target or the temp
\* file of a location whose entry has reached MAX_REPAIR_ATTEMPTS.
TrippedIsLeftAlone ==
    \A l \in Locs :
        repair_attempts[l] >= MAX_REPAIR_ATTEMPTS =>
            /\ repair_attempts'[l] = repair_attempts[l]
            /\ pc # "top" => (fs'[l] = fs[l] /\ tmpf'[l] = tmpf[l])

\* C34 as stated: once the ledger entry of a location has reached
\* MAX_REPAIR_ATTEMPTS the entry never changes, the location is never written,
\* and it is never read: what find_source_binary returns counts no such
\* location.
C34_TrippedNeverReadNorWritten ==
    /\ [][TrippedIsLeftAlone]_vars
    /\ [] ( (pc = "repair" /\ loc = 1) =>
               source.count =
                   Cardinality({l \in GroupOf(fs, source.crc) :
                                    repair_attempts[l] < MAX_REPAIR_ATTEMPTS}) )

\* C34 as amended: once the ledger entry of a location has reached
\* MAX_REPAIR_ATTEMPTS the entry never changes and the repair loop never
\* calls write_binary_atomic_safe on the location nor writes its target or
\* temp file, whether or not the cause of the failures has gone and whatever
\* the location holds; the scan of find_source_binary still reads it, and a
\* valid replica found there counts towards the consensus.
C34_TrippedNeverRepaired ==
    /\ [][TrippedIsLeftAlone]_vars
    /\ [] ( /\ pc \in WritePcs \cup {"w_ret"} =>
                 repair_attempts[loc] < MAX_REPAIR_ATTEMPTS
            /\ (pc = "repair" /\ loc = 1) =>
                 source.count = Cardinality(GroupOf(fs, source.crc)) )

\* C34 witness: a check has ended after the cause of the failures had gone;
\* of two locations whose entries have reached MAX_REPAIR_ATTEMPTS one is
\* still missing, the other was put back from outside and has been counted.
C34_Witness ==
    /\ pc = "after"
    /\ result = "ok"
    /\ \A l \in Locs : fault[l] = "none"
    /\ source.count = Cardinality(GroupOf(fs, source.crc))
    /\ \E l, m \in Locs :
         /\ repair_attempts[l] = MAX_REPAIR_ATTEMPTS
         /\ fs[l] = ABSENT
         /\ repair_attempts[m] = MAX_REPAIR_ATTEMPTS
         /\ fs[m] = source.data

\* C35: when write_binary_atomic_safe returns an error from a step after the
\* creation of the temp file, the temp file no longer exists, and so the
\* exclusive create of a later attempt on the location fails only when the
\* open itself is refused.
C35_NoTempAfterFailedRepair ==
    /\ (pc = "w_ret" /\ wres \notin {"ok", "Unsafe write path", "open failed"}) =>
           tmpf[loc] = ABSENT
    /\ (pc = "w_ret" /\ wres = "open failed") => fault[loc] = "open"

\* C35 witness: a later attempt on a location whose earlier write failed is
\* refused by the exclusive create, the cause of the first failure being gone.
C35_Witness ==
    /\ pc = "w_ret"
    /\ wres = "open failed"
    /\ fault[loc] = "none"
    /\ tmpf[loc] = Torn(source.data)
    /\ repair_attempts[loc] > 0

\* C36: in service mode the cumulative repair counter is at most REPAIR_LIMIT
\* plus the number of locations; it never decreases, and it grows by exactly
\* one for each successful repair and not otherwise.
C36_CounterBounded ==
    /\ [] (REPAIR_COUNTER <= REPAIR_LIMIT + Cardinality(Locs))
    /\ [][ /\ REPAIR_COUNTER' >= REPAIR_COUNTER
           /\ (pc = "w_ret" /\ wres = "ok") <=> REPAIR_COUNTER' = REPAIR_COUNTER + 1
           /\ REPAIR_COUNTER' \in {REPAIR_COUNTER, REPAIR_COUNTER + 1}
         ]_vars

\* C36 witness: a check that saw too little room on the disk has repaired a
\* replica and brought the counter above REPAIR_LIMIT plus the number of
\* locations.
C36_Witness ==
    /\ mode = "service"
    /\ pc = "after"
    /\ h_disk = "low"
    /\ repaired > 0
    /\ REPAIR_COUNTER > REPAIR_LIMIT + Cardinality(Locs)

\* C37: once RUNNING is cleared the service leaves its loop and exits with
\* the final status written; the final status is written by the one step that
\* leads from the loop to the exit, after which nothing happens; a call of
\* write_binary_atomic_safe that was under way when RUNNING was cleared goes
\* on to its return, and the signal changes nothing of it.
C37_ShutdownLiveness ==
    /\ (~RUNNING) ~> (pc = "exited" /\ status = "written" /\ exit_code = 0)
    /\ (~RUNNING /\ pc \in WritePcs) ~> (pc = "w_ret")
    /\ [][ /\ pc # "exited"
           /\ pc' = "exited" => (pc = "final" /\ status' = "written")
           /\ (RUNNING /\ ~RUNNING') =>
                  (pc' = pc /\ fs' = fs /\ tmpf' = tmpf /\ wres' = wres)
         ]_vars

\* C37 witness: RUNNING was cleared and the service, not Critical, has left
\* its loop after a check that ran to its end and repairs that succeeded; it
\* has written the final status and exited, no temp file left behind.
C37_Witness ==
    /\ pc = "exited"
    /\ status = "written"
    /\ ~RUNNING
    /\ h_prev = "clean"
    /\ REPAIR_COUNTER > 0
    /\ KEEPER_STATE # "Critical"
    /\ \A l \in Locs : tmpf[l] = ABSENT

C39_ClassifiedAndRepaired ==
    \A l \in 1..V2Locations :
        (pc = "v2_store" /\ l \in dirs /\ check_replica(fs[l], wres) # "Healthy")
            ~> (pc = "v2_repair" /\ loc = l)

\* C39 witness: a cycle has its payload; of the discovered locations one is
\* missing, one holds another valid file, one an invalid file; the thread is
\* stopped before the first call of check_replica.
C39_Witness ==
    /\ pc \in {"v2_blocked", "v2_panicked"}
    /\ \E l, m, n \in dirs :
         /\ check_replica(fs[l], wres) = "Missing"
         /\ check_replica(fs[m], wres) = "Stale"
         /\ check_replica(fs[n], wres) = "Corrupted"
====
